---- MODULE Spec2Model ----
(***************************************************************************)
(* Model of the watermark-remover backend: the fallback chain of           *)
(* parse_link (backend/main.py), alone and with several calls in flight,   *)
(* the shared headless browser of                                          *)
(* BrowserParser (backend/parsers/browser_parser.py), the endpoint         *)
(* sub-chain of AggregatorParser (backend/parsers/aggregator.py) and the   *)
(* functions without shared state: the response normalizers of the         *)
(* parsers, their recursive searches, the two detect_platform and          *)
(* DouyinParser.parse, which is also followed request by request.          *)
(*                                                                         *)
(* Python strings are TLA+ strings and are handled character by character  *)
(* (Len, SubSeq, \o).  The Chinese message literals of the source are      *)
(* written as ASCII literals of the same role.                             *)
(***************************************************************************)
EXTENDS Integers, Sequences, FiniteSets, TLC

\* parse_link, per request
VARIABLES pc, url, idx, last_error, calls, probes, response

\* AggregatorParser.parse
VARIABLES aggPc, aggUrl, aggIdx, aggLastError, aggTried, aggOut

\* the shared browser of browser_parser.py and the calls of BrowserParser.parse
VARIABLES bpc, bplat, lockHolder, waiters, waited, browser, connected,
          launches, launched, got, ctx, bpending, cookieFile

\* the function applied last, its input and what it handed back
VARIABLES nFn, nIn, nOut

\* one call of DouyinParser.parse: its position, the id it has, the
\* requests it has sent, the answers it got and its outcome
VARIABLES dpc, dUrl, dItemId, dSent, dPage, dDetail, dOut

chainVars == <<pc, url, idx, last_error, calls, probes, response>>

browserVars ==
    <<bpc, bplat, lockHolder, waiters, waited, browser, connected, launches,
      launched, got, ctx, bpending, cookieFile>>

aggVars == <<aggPc, aggUrl, aggIdx, aggLastError, aggTried, aggOut>>

normVars == <<nFn, nIn, nOut>>

douyinVars == <<dpc, dUrl, dItemId, dSent, dPage, dDetail, dOut>>

vars == <<chainVars, aggVars, browserVars, normVars, douyinVars>>

-----------------------------------------------------------------------------
(* Bounds of the model *)

\* number of share-text pieces a request body is built from
MaxRawLen == 3

\* number of parse_link calls the server holds state for
MaxReqs == 2

\* number of concurrent calls of BrowserParser.parse
MaxTasks == 2

\* number of browser launches followed
MaxLaunches == 2

\* number of entries of an image list of a payload
MaxImages == 2

\* the longest video address of a payload, in parts
MaxUrlParts == 3

\* the deepest nesting of a page state
MaxNest == 10

\* the longest bit_rate list of a payload
MaxVariants == 3

-----------------------------------------------------------------------------
(* Python values *)

\* Python None where a str is expected (video_url, title, cover, error)
None == "<None>"

\* truthiness of an optional str
Truthy(s) == s # None /\ s # ""

Min(a, b) == IF a < b THEN a ELSE b

\* s[:n]
Prefix(s, n) == SubSeq(s, 1, Min(n, Len(s)))

\* s[n:]  (n counted from 0, as in Python)
Suffix(s, n) == SubSeq(s, Min(n, Len(s)) + 1, Len(s))

CharAt(s, i) == SubSeq(s, i, i)

\* s * n
RECURSIVE Rep(_, _)
Rep(s, n) ==
    IF n = 0 THEN ""
    ELSE IF n % 2 = 0 THEN LET half == Rep(s, n \div 2) IN half \o half
    ELSE s \o Rep(s, n - 1)

\* s.startswith(p)
StartsWith(s, p) == Len(s) >= Len(p) /\ SubSeq(s, 1, Len(p)) = p

\* sub in s
Contains(s, sub) ==
    \E i \in 1..(Len(s) - Len(sub) + 1) : SubSeq(s, i, i + Len(sub) - 1) = sub

\* the characters the class \s of a regular expression matches
Whitespace == {" ", "\t", "\n", "\r"}

\* the characters excluded by [^\s<>"'] in the URL pattern
UrlStop == Whitespace \cup {"<", ">", "\"", "'"}

RECURSIVE LStrip(_)
LStrip(s) ==
    IF s # "" /\ CharAt(s, 1) \in Whitespace THEN LStrip(Suffix(s, 1)) ELSE s

RECURSIVE RStrip(_)
RStrip(s) ==
    IF s # "" /\ CharAt(s, Len(s)) \in Whitespace
    THEN RStrip(Prefix(s, Len(s) - 1)) ELSE s

\* s.strip()
Strip(s) == RStrip(LStrip(s))

\* length of the scheme https?:// found at position i of s, 0 if none
SchemeAt(s, i) ==
    IF SubSeq(s, i, Min(i + 7, Len(s))) = "https://" THEN 8
    ELSE IF SubSeq(s, i, Min(i + 6, Len(s))) = "http://" THEN 7
    ELSE 0

\* end of the longest run of characters outside UrlStop that starts at i
\* (i - 1 when the character at i is a stop character or s ends there)
RECURSIVE RunEnd(_, _)
RunEnd(s, i) ==
    IF i <= Len(s) /\ CharAt(s, i) \notin UrlStop THEN RunEnd(s, i + 1)
    ELSE i - 1

\* the pattern (https?://[^\s<>"']+) matches at position i of s
MatchesAt(s, i) ==
    /\ SchemeAt(s, i) > 0
    /\ RunEnd(s, i + SchemeAt(s, i)) >= i + SchemeAt(s, i)

\* re.search(r'(https?://[^\s<>"\']+)', raw) then m.group(1) if m else raw
CleanUrl(raw0) ==
    LET raw == Strip(raw0)
        hits == {i \in 1..Len(raw) : MatchesAt(raw, i)}
    IN  IF hits = {} THEN raw
        ELSE LET i == CHOOSE j \in hits : \A k \in hits : j <= k
             IN  SubSeq(raw, i, RunEnd(raw, i + SchemeAt(raw, i)))

-----------------------------------------------------------------------------
(* The strategies of the chain *)

\* the registry with the aggregator put before the browser
PARSERS_AggregatorFirst ==
    <<"AggregatorParser", "BrowserParser", "DouyinParser",
      "KuaishouParser", "XiaohongshuParser">>

PARSERS ==
    <<"BrowserParser", "AggregatorParser", "DouyinParser",
      "KuaishouParser", "XiaohongshuParser">>

BrowserDomains ==
    {"douyin.com", "iesdouyin.com", "kuaishou.com", "gifshow.com",
     "chenzhongtech.com", "xiaohongshu.com", "xhslink.com"}

BrowserCanHandle(u) == \E d \in BrowserDomains : Contains(u, d)

\* an aggregator that takes the links of the known platforms only
AggregatorCanHandle_KnownOnly(u) == StartsWith(u, "http") /\ BrowserCanHandle(u)

AggregatorCanHandle(u) == StartsWith(u, "http")

DouyinCanHandle(u) == \E d \in {"douyin.com", "iesdouyin.com"} : Contains(u, d)

KuaishouCanHandle(u) ==
    \E d \in {"kuaishou.com", "gifshow.com", "chenzhongtech.com"} : Contains(u, d)

XiaohongshuCanHandle(u) ==
    \E d \in {"xiaohongshu.com", "xhslink.com"} : Contains(u, d)

\* parser.can_handle(url)
CanHandle(p, u) ==
    CASE p = "BrowserParser" -> BrowserCanHandle(u)
      [] p = "AggregatorParser" -> AggregatorCanHandle(u)
      [] p = "DouyinParser" -> DouyinCanHandle(u)
      [] p = "KuaishouParser" -> KuaishouCanHandle(u)
      [] p = "XiaohongshuParser" -> XiaohongshuCanHandle(u)

-----------------------------------------------------------------------------
(* Results and responses *)

\* the dict a strategy's parse returns
MkResult(title, cover, video_url, images, platform, type) ==
    [title |-> title, cover |-> cover, video_url |-> video_url,
     images |-> images, platform |-> platform, type |-> type]

\* place holder of a call's result while it has none
NoResult == MkResult(None, None, None, <<>>, "None", "None")

\* ParseResponse(success=True, **result)
SuccessResponse(res) ==
    [success |-> TRUE, title |-> res.title, cover |-> res.cover,
     video_url |-> res.video_url, images |-> res.images,
     platform |-> res.platform, type |-> res.type, error |-> None]

\* a failure response that drops the diagnostic
FailureResponse_NoError(e) ==
    [success |-> FALSE, title |-> None, cover |-> None, video_url |-> None,
     images |-> <<>>, platform |-> "None", type |-> "None", error |-> None]

\* ParseResponse(success=False, error=e): the other fields keep their defaults
FailureResponse(e) ==
    [success |-> FALSE, title |-> None, cover |-> None, video_url |-> None,
     images |-> <<>>, platform |-> "None", type |-> "None", error |-> e]

\* no response produced yet
NoResponse ==
    [success |-> FALSE, title |-> None, cover |-> None, video_url |-> None,
     images |-> <<>>, platform |-> "None", type |-> "None", error |-> None]

\* "qing shuru youxiao de lianjie": the invalid-link error
ErrInvalidLink == "invalid link"

\* "zan bu zhichi gai pingtai ...": the initial last_error
ErrUnsupported == "platform not supported"

\* "jiexi chenggong dan wei zhaodao meiti neirong"
ErrNoMedia == "parsed but no media found"

\* the bound of str(e)[:200]
MsgLimit == 200

\* the diagnostic with the whole message
RaiseDiagnostic_Untruncated(p, msg) == p \o ": " \o msg

\* f"{parser.__name__}: {str(e)[:200]}"
RaiseDiagnostic(p, msg) == p \o ": " \o Prefix(msg, MsgLimit)

\* a guard that rejects only the empty text
UrlGuard_NonEmpty(u) == u # ""

\* not url.startswith("http") is the guard that rejects the request
UrlGuard(u) == StartsWith(u, "http")

\* a validation that looks at video_url only
HasMedia_VideoOnly(res) == Truthy(res.video_url)

\* result.get("video_url") or result.get("images")
HasMedia(res) == Truthy(res.video_url) \/ Len(res.images) > 0

-----------------------------------------------------------------------------
(* JSON payloads                                                           *)
(*                                                                         *)
(* A JSON object is a function from the keys it has to their values, a     *)
(* JSON array a sequence, a JSON string a string.  A value that may be a   *)
(* string or an object (an image entry, a cover) is tagged with its kind.  *)
(* A number or boolean that is only compared with literals is written as   *)
(* its JSON text: 200 is "200", the string "200" is "\"200\"".             *)

\* d.get(k, dflt)
Get(d, k, dflt) == IF k \in DOMAIN d THEN d[k] ELSE dflt

\* a JSON string where a string or an object may stand
SV(s) == [kind |-> "str", str |-> s, obj |-> <<>>]

\* a JSON object where a string or an object may stand
OV(o) == [kind |-> "dict", str |-> "", obj |-> o]

\* x or dflt, for strings
OrElse(x, dflt) == IF Truthy(x) THEN x ELSE dflt

\* [i for i in xs if i]
RECURSIVE NonEmpty(_)
NonEmpty(xs) ==
    IF xs = <<>> THEN <<>>
    ELSE IF Truthy(Head(xs)) THEN <<Head(xs)>> \o NonEmpty(Tail(xs))
         ELSE NonEmpty(Tail(xs))

\* what a response parser or a parse hands back: a dict, None, or an exception
RetDict(res) == [kind |-> "dict", res |-> res, msg |-> ""]

RetNone == [kind |-> "none", res |-> NoResult, msg |-> ""]

RetRaise(msg) == [kind |-> "raise", res |-> NoResult, msg |-> msg]

\* "weizhi biaoti": the title of the aggregator when the payload has none
UnknownTitle == "unknown title"

-----------------------------------------------------------------------------
(* The Douyin payload shapes shared by douyin.wtf, the detail API and the  *)
(* SSR state of the Douyin page                                            *)

\* s.replace(old, new): every occurrence of old, left to right, without overlap
RECURSIVE Replace(_, _, _)
Replace(s, old, new) ==
    IF Len(s) < Len(old) THEN s
    ELSE IF StartsWith(s, old) THEN new \o Replace(Suffix(s, Len(old)), old, new)
         ELSE CharAt(s, 1) \o Replace(Suffix(s, 1), old, new)

\* the rewrite that drops every "wm"
StripWatermark_DropWm(u) == Replace(u, "wm", "")

\* url.replace("playwm", "play")
StripWatermark(u) == Replace(u, "playwm", "play")

\* xs[0] if xs else ""
FirstOr(xs, dflt) == IF xs = <<>> THEN dflt ELSE xs[1]

\* the selection that keeps the last of the entries of highest bit rate
MaxByBitRate_LastMax(bit_rates) ==
    LET key(i) == Get(bit_rates[i], "bit_rate", 0)
        best == CHOOSE i \in 1..Len(bit_rates) :
                    /\ \A j \in 1..Len(bit_rates) : key(j) <= key(i)
                    /\ \A j \in (i + 1)..Len(bit_rates) : key(j) < key(i)
    IN  bit_rates[best]

\* max(bit_rates, key=lambda x: x.get("bit_rate", 0)): the first entry whose
\* key no other entry exceeds
MaxByBitRate(bit_rates) ==
    LET key(i) == Get(bit_rates[i], "bit_rate", 0)
        best == CHOOSE i \in 1..Len(bit_rates) :
                    /\ \A j \in 1..Len(bit_rates) : key(j) <= key(i)
                    /\ \A j \in 1..(i - 1) : key(j) < key(i)
    IN  bit_rates[best]

\* the video URL of a Douyin video object: play_addr.url_list[0] without the
\* watermark marker, else the same of the bit_rate entry of highest bit rate
DouyinVideoUrl(video_data) ==
    LET urls == Get(Get(video_data, "play_addr", <<>>), "url_list", <<>>)
        direct == IF urls # <<>> THEN StripWatermark(urls[1]) ELSE ""
        bit_rates == Get(video_data, "bit_rate", <<>>)
    IN  IF direct # "" THEN direct
        ELSE IF bit_rates = <<>> THEN ""
        ELSE LET burls == Get(Get(MaxByBitRate(bit_rates), "play_addr", <<>>),
                              "url_list", <<>>)
             IN  IF burls # <<>> THEN StripWatermark(burls[1]) ELSE ""

\* the loop of _parse_douyin_wtf over the image entries: of an object the
\* first element of url_list if it has one, a string as it is
RECURSIVE WtfImages(_)
WtfImages(imgs) ==
    IF imgs = <<>> THEN <<>>
    ELSE LET img == Head(imgs)
             ul == Get(img.obj, "url_list", <<>>)
         IN  (IF img.kind = "dict"
              THEN (IF ul # <<>> THEN <<ul[1]>> ELSE <<>>)
              ELSE <<img.str>>)
             \o WtfImages(Tail(imgs))

\* _parse_douyin_wtf(data, platform)
ParseDouyinWtf(data, platform) ==
    IF Get(data, "code", "null") # "200" /\ Get(data, "status", "null") # "\"success\""
    THEN RetNone
    ELSE
    LET d == Get(data, "data", data)
    IN  IF DOMAIN d = {} THEN RetNone
        ELSE
        LET title == Get(d, "desc", Get(d, "title", ""))
            cover_data == Get(d, "cover", Get(Get(d, "video", <<>>), "cover", OV(<<>>)))
            cover == IF cover_data.kind = "dict"
                     THEN FirstOr(Get(cover_data.obj, "url_list", <<>>), "")
                     ELSE cover_data.str
            image_data == Get(d, "images",
                              Get(Get(d, "image_post_info", <<>>), "images", <<>>))
            images == WtfImages(image_data)
            video_url == DouyinVideoUrl(Get(d, "video", <<>>))
        IN  IF images # <<>>
            THEN RetDict(MkResult(OrElse(title, UnknownTitle),
                                  IF cover = "" THEN images[1] ELSE cover,
                                  None, images, platform, "images"))
            ELSE IF video_url = "" THEN RetNone
            ELSE RetDict(MkResult(OrElse(title, UnknownTitle), cover, video_url,
                                  <<>>, platform, "video"))

-----------------------------------------------------------------------------
(* aggregator.py: platform detection and the three response parsers *)

\* PLATFORM_MAP of aggregator.py, in the order of the dict
AggPlatformMap ==
    <<[platform |-> "douyin", domains |-> {"douyin.com", "iesdouyin.com"}],
      [platform |-> "kuaishou",
       domains |-> {"kuaishou.com", "gifshow.com", "chenzhongtech.com"}],
      [platform |-> "xiaohongshu", domains |-> {"xiaohongshu.com", "xhslink.com"}],
      [platform |-> "bilibili", domains |-> {"bilibili.com", "b23.tv"}],
      [platform |-> "weibo", domains |-> {"weibo.com", "weibo.cn"}],
      [platform |-> "pipixia", domains |-> {"pipix.com", "h5.pipix.com"}],
      [platform |-> "tiktok", domains |-> {"tiktok.com", "vm.tiktok.com"}]>>

\* the first platform of the map one of whose domains occurs in u
RECURSIVE DetectIn(_, _, _)
DetectIn(map, u, i) ==
    IF i > Len(map) THEN "unknown"
    ELSE IF \E d \in map[i].domains : Contains(u, d) THEN map[i].platform
         ELSE DetectIn(map, u, i + 1)

\* detect_platform of aggregator.py
AggDetectPlatform(u) == DetectIn(AggPlatformMap, u, 1)

\* the loop of _parse_pearktrue over the image entries: a string is kept,
\* of an object the value of url, else of url_default, else "" is taken
RECURSIVE PearktrueClean(_)
PearktrueClean(imgs) ==
    IF imgs = <<>> THEN <<>>
    ELSE LET img == Head(imgs)
         IN  (IF img.kind = "str" THEN <<img.str>>
              ELSE <<Get(img.obj, "url", Get(img.obj, "url_default", ""))>>)
             \o PearktrueClean(Tail(imgs))

\* _parse_pearktrue(data, platform)
ParsePearktrue(data, platform) ==
    IF Get(data, "code", "null") \notin {"200", "0", "\"200\""} THEN RetNone
    ELSE
    LET d == Get(data, "data", data)
        title == Get(d, "title", Get(d, "desc", ""))
        cover == Get(d, "cover", Get(d, "thumbnail", ""))
        video_url == Get(d, "url", Get(d, "video", Get(d, "video_url", "")))
        raw == Get(d, "images", Get(d, "pics", Get(d, "image_list", <<>>)))
    IN  IF title = "" /\ video_url = "" /\ raw = <<>> THEN RetNone
        ELSE IF raw # <<>>
        THEN \* content_type = "images", decided on the list as received
             LET images == NonEmpty(PearktrueClean(raw))
                 cover2 == IF cover = "" /\ images # <<>> THEN images[1] ELSE cover
             IN  RetDict(MkResult(OrElse(title, UnknownTitle), cover2, None,
                                  images, platform, "images"))
        ELSE IF video_url = "" THEN RetNone
        ELSE RetDict(MkResult(OrElse(title, UnknownTitle), cover, video_url,
                              <<>>, platform, "video"))

\* the loop of _parse_generic_v1 over the image entries
RECURSIVE GenericClean(_)
GenericClean(imgs) ==
    IF imgs = <<>> THEN <<>>
    ELSE LET img == Head(imgs)
         IN  (IF img.kind = "str" THEN <<img.str>>
              ELSE <<Get(img.obj, "url", "")>>)
             \o GenericClean(Tail(imgs))

\* the values of status that _parse_generic_v1 accepts: 101, 200, 0, True,
\* "200", "101"; in Python 1 == True and False == 0
GenericAccepted == {"101", "200", "0", "true", "1", "false", "\"200\"", "\"101\""}

\* _parse_generic_v1(data, platform)
ParseGenericV1(data, platform) ==
    IF /\ Get(data, "status", Get(data, "code", "0")) \notin GenericAccepted
       /\ Get(data, "success", "null") # "true"
    THEN RetNone
    ELSE
    LET d == Get(data, "data", data)
        title == Get(d, "title", Get(d, "work_title", Get(d, "desc", "")))
        cover == Get(d, "cover", Get(d, "work_cover", Get(d, "thumbnail", "")))
        video_url == Get(d, "url", Get(d, "work_url", Get(d, "video_url", "")))
        raw == Get(d, "images", Get(d, "pics", Get(d, "image_list", <<>>)))
    IN  IF title = "" /\ video_url = "" /\ raw = <<>> THEN RetNone
        ELSE
        LET images == NonEmpty(GenericClean(raw))
        IN  IF images # <<>>
            THEN RetDict(MkResult(OrElse(title, UnknownTitle),
                                  IF cover = "" THEN images[1] ELSE cover,
                                  None, images, platform, "images"))
            ELSE IF video_url = "" THEN RetNone
            ELSE RetDict(MkResult(OrElse(title, UnknownTitle), cover, video_url,
                                  <<>>, platform, "video"))

-----------------------------------------------------------------------------
(* AggregatorParser.parse: the sub-chain over the endpoints *)

\* APIS: the endpoints and the response parser of each
APIS ==
    <<[name |-> "jx_api_1", parse |-> "_parse_pearktrue"],
      [name |-> "jx_api_2", parse |-> "_parse_generic_v1"],
      [name |-> "jx_api_3", parse |-> "_parse_douyin_wtf"]>>

\* getattr(cls, api["parse"])(data, platform)
ApplyParser(method, data, platform) ==
    CASE method = "_parse_pearktrue" -> ParsePearktrue(data, platform)
      [] method = "_parse_generic_v1" -> ParseGenericV1(data, platform)
      [] method = "_parse_douyin_wtf" -> ParseDouyinWtf(data, platform)

\* _try_api once the HTTP response has arrived
TryApi(api, status, data, platform) ==
    IF status # 200 THEN RetNone ELSE ApplyParser(api.parse, data, platform)

\* "suoyou jiexi jiekou jun shibai": the initial last_error of the aggregator
ErrAllFailed == "all endpoints failed"

\* the bound of str(e)[:100]
AggMsgLimit == 100

\* f"{api['name']}: {str(e)[:100]}"
ApiDiagnostic(api, msg) == api.name \o ": " \o Prefix(msg, AggMsgLimit)

\* str() of ValueError(f"jiexi shibai - {last_error}")
AggFailure(le) == "parse failed - " \o le

\* if result: a dict with its six keys is true, None is false
ResultTruthy(out) == out.kind = "dict"

\* the exceptions of an endpoint call: the request fails, or the body is
\* not JSON
ApiExceptions ==
    {[cls |-> "HTTPError", msg |-> "timeout"],
     [cls |-> "ValueError", msg |-> Rep("j", AggMsgLimit) \o "!"]}

\* the bodies the endpoint of the given response parser answers with
ApiBodies(method) ==
    CASE method = "_parse_pearktrue" ->
            {[code |-> "404"],
             [code |-> "200", data |-> [title |-> "T", url |-> "http://v/1.mp4"]],
             [code |-> "200", data |-> [title |-> "T", images |-> <<OV([url |-> ""])>>]],
             [code |-> "200", data |-> [images |-> <<OV([url |-> "a"]), SV("b")>>]]}
      [] method = "_parse_generic_v1" ->
            {[status |-> "500"],
             [status |-> "101", data |-> [work_title |-> "T", work_url |-> "http://v/2.mp4"]],
             [code |-> "200", data |-> [title |-> "T", images |-> <<OV([url |-> ""])>>]],
             [success |-> "true", images |-> <<SV("a"), SV("")>>]}
      [] method = "_parse_douyin_wtf" ->
            {[code |-> "500"],
             [code |-> "200", data |-> <<>>],
             [code |-> "200",
              data |-> [desc |-> "T",
                        video |-> [play_addr |-> [url_list |-> <<"http://v/playwm/3">>]]]],
             [status |-> "\"success\"", desc |-> "T",
              images |-> <<OV([url_list |-> <<"a">>]), OV([url_list |-> <<>>])>>]}

\* HTTP status codes of an endpoint
ApiStatuses == {200, 502}

\* an entry of the log of endpoint calls
Tried(api, how, out) == [api |-> api.name, how |-> how, out |-> out]

\* the for loop after endpoint aggIdx is done without a truthy result
AggContinue(le, log) ==
    /\ aggTried' = log
    /\ aggLastError' = le
    /\ IF aggIdx < Len(APIS)
       THEN /\ aggIdx' = aggIdx + 1
            /\ UNCHANGED <<aggPc, aggOut>>
       ELSE /\ aggPc' = "raised"
            /\ aggOut' = RetRaise(AggFailure(le))
            /\ UNCHANGED aggIdx

\* AggregatorParser.parse(url) up to the first request
AggStart(u) ==
    /\ aggPc = "idle"
    /\ aggPc' = "await"
    /\ aggUrl' = CleanUrl(u)
    /\ aggIdx' = 1
    /\ aggLastError' = ErrAllFailed
    /\ aggTried' = <<>>
    /\ aggOut' = RetNone

\* the endpoint answers with an HTTP status and a JSON body
ApiResponds(status, data) ==
    /\ aggPc = "await"
    /\ LET api == APIS[aggIdx]
           out == TryApi(api, status, data, AggDetectPlatform(aggUrl))
           log == Append(aggTried, Tried(api, IF status = 200 THEN "parsed" ELSE "status", out))
       IN  IF ResultTruthy(out)
           THEN /\ aggPc' = "returned"
                /\ aggOut' = out
                /\ aggTried' = log
                /\ UNCHANGED <<aggIdx, aggLastError>>
           ELSE AggContinue(aggLastError, log)
    /\ UNCHANGED aggUrl

\* the request or the decoding of the body raises
ApiRaises(e) ==
    /\ aggPc = "await"
    /\ LET api == APIS[aggIdx]
       IN  AggContinue(ApiDiagnostic(api, e.msg),
                       Append(aggTried, Tried(api, "raised", RetRaise(e.msg))))
    /\ UNCHANGED aggUrl

\* parse has returned or raised; its locals are gone
AggDone ==
    /\ aggPc \in {"returned", "raised"}
    /\ aggPc' = "idle"
    /\ aggUrl' = ""
    /\ aggIdx' = 1
    /\ aggLastError' = ""
    /\ aggTried' = <<>>
    /\ aggOut' = RetNone

AggInit ==
    /\ aggPc = "idle"
    /\ aggUrl = ""
    /\ aggIdx = 1
    /\ aggLastError = ""
    /\ aggTried = <<>>
    /\ aggOut = RetNone

\* the URLs the chain hands to the aggregator
AggUrls == {"http://douyin.com/x", "https://b23.tv/x", "http://example.org/x"}

-----------------------------------------------------------------------------
(* douyin.py: the detail API *)

\* "douyin shipin": the title when the item has no desc
DouyinDefaultTitle == "douyin video"

\* the loop of _fetch_detail over images_data: img.get raises AttributeError
\* on an entry that is not an object
DetailImagesRaise(imgs) == \E i \in 1..Len(imgs) : imgs[i].kind # "dict"

RECURSIVE DetailImages(_)
DetailImages(imgs) ==
    IF imgs = <<>> THEN <<>>
    ELSE LET ul == Get(Head(imgs).obj, "url_list", <<>>)
         IN  (IF ul # <<>> THEN <<ul[1]>> ELSE <<>>) \o DetailImages(Tail(imgs))

\* _fetch_detail once the detail endpoint has answered 2xx with the JSON data
DouyinFetchDetail(data) ==
    LET items == Get(data, "item_list", <<>>)
    IN  IF items = <<>> THEN RetRaise("no video data")
        ELSE
        LET item == items[1]
            desc == Get(item, "desc", DouyinDefaultTitle)
            cover == FirstOr(Get(Get(Get(item, "video", <<>>), "cover", <<>>),
                                 "url_list", <<>>), "")
            images_data == Get(item, "images", <<>>)
            video_url == DouyinVideoUrl(Get(item, "video", <<>>))
        IN  IF images_data # <<>>
            THEN IF DetailImagesRaise(images_data)
                 THEN RetRaise("'str' object has no attribute 'get'")
                 ELSE RetDict(MkResult(desc, cover, None, DetailImages(images_data),
                                       "douyin", "images"))
            ELSE RetDict(MkResult(desc, cover, OrElse(video_url, None), <<>>,
                                  "douyin", "video"))

\* s[i], "" outside s
At(s, i) == IF i \in 1..Len(s) THEN SubSeq(s, i, i) ELSE ""

\* the characters \d matches
Digit == {"0", "1", "2", "3", "4", "5", "6", "7", "8", "9"}

\* end of the longest run of digits that starts at i (i - 1 without one)
RECURSIVE DigitRunEnd(_, _)
DigitRunEnd(s, i) ==
    IF At(s, i) \in Digit THEN DigitRunEnd(s, i + 1) ELSE i - 1

\* the first position from i on that holds no whitespace
RECURSIVE WsEnd(_, _)
WsEnd(s, i) ==
    IF At(s, i) \in Whitespace THEN WsEnd(s, i + 1) ELSE i

\* re.search(lit + r"(\d+)", s): group 1 of the leftmost match, else None
SearchDigits(s, lit) ==
    LET hits == {i \in 1..Len(s) :
                     /\ SubSeq(s, i, Min(i + Len(lit) - 1, Len(s))) = lit
                     /\ DigitRunEnd(s, i + Len(lit)) >= i + Len(lit)}
    IN  IF hits = {} THEN None
        ELSE LET i == CHOOSE j \in hits : \A k \in hits : j <= k
             IN  SubSeq(s, i + Len(lit), DigitRunEnd(s, i + Len(lit)))

\* the digits of lit \s* [seps] \s* [quotes] (\d+) [quotes] matched at
\* position i of s, None without a match there
QuotedIdAt(s, i, lit, seps, quotes) ==
    LET j == WsEnd(s, i + Len(lit))
        k == WsEnd(s, j + 1)
        e == DigitRunEnd(s, k + 1)
    IN  IF /\ SubSeq(s, i, Min(i + Len(lit) - 1, Len(s))) = lit
           /\ At(s, j) \in seps
           /\ At(s, k) \in quotes
           /\ e >= k + 1
           /\ At(s, e + 1) \in quotes
        THEN SubSeq(s, k + 1, e)
        ELSE None

\* re.search of such a pattern: group 1 of the leftmost match, else None
SearchQuotedId(s, lit, seps, quotes) ==
    LET hits == {i \in 1..Len(s) : QuotedIdAt(s, i, lit, seps, quotes) # None}
    IN  IF hits = {} THEN None
        ELSE QuotedIdAt(s, CHOOSE j \in hits : \A k \in hits : j <= k,
                        lit, seps, quotes)

\* the extraction that knows the modal_id form only
ExtractItemId_ModalOnly(u) == SearchDigits(u, "modal_id=")

\* DouyinParser._extract_item_id: /video/(\d+), else modal_id=(\d+)
ExtractItemId(u) ==
    IF SearchDigits(u, "/video/") # None THEN SearchDigits(u, "/video/")
    ELSE SearchDigits(u, "modal_id=")

\* DouyinParser._extract_from_html: "aweme_id"\s*:\s*"(\d+)", else
\* itemId\s*[:=]\s*["'](\d+)["']
ExtractFromHtml(html) ==
    IF SearchQuotedId(html, "\"aweme_id\"", {":"}, {"\""}) # None
    THEN SearchQuotedId(html, "\"aweme_id\"", {":"}, {"\""})
    ELSE SearchQuotedId(html, "itemId", {":", "="}, {"\"", "'"})

\* "wufa cong lianjie zhong tiqu douyin shipin ID"
ErrNoItemId == "cannot extract the douyin video id from the link"

\* DouyinParser.parse(url): redirect is what client.get(url) does, detail
\* what the GET of the detail endpoint does
DouyinParse(u, redirect, detail) ==
    LET direct == ExtractItemId(u)
        item_id == IF direct # None THEN direct
                   ELSE IF ExtractItemId(redirect.url) # None
                   THEN ExtractItemId(redirect.url)
                   ELSE ExtractFromHtml(redirect.text)
    IN  IF direct = None /\ redirect.kind = "raise" THEN RetRaise(redirect.msg)
        ELSE IF ~Truthy(item_id) THEN RetRaise(ErrNoItemId)
        ELSE IF detail.kind = "raise" THEN RetRaise(detail.msg)
        ELSE IF detail.status \notin 200..299
        THEN RetRaise("HTTPStatusError " \o detail.reason)
        ELSE DouyinFetchDetail(detail.data)

-----------------------------------------------------------------------------
(* kuaishou.py: projection of the photo object found in the page state *)

\* "kuaishou shipin"
KuaishouDefaultTitle == "kuaishou video"

\* for ck in ["coverUrl", "poster", "webpCoverUrl"]: the first that is set
KsCover(photo) ==
    IF Truthy(Get(photo, "coverUrl", "")) THEN photo["coverUrl"]
    ELSE IF Truthy(Get(photo, "poster", "")) THEN photo["poster"]
    ELSE IF Truthy(Get(photo, "webpCoverUrl", "")) THEN photo["webpCoverUrl"]
    ELSE ""

\* [p.get("cdn_image_url", p.get("url", "")) for p in ext_photos
\*  if isinstance(p, dict)]
RECURSIVE KsImages(_)
KsImages(ps) ==
    IF ps = <<>> THEN <<>>
    ELSE LET p == Head(ps)
         IN  (IF p.kind = "dict"
              THEN <<Get(p.obj, "cdn_image_url", Get(p.obj, "url", ""))>>
              ELSE <<>>)
             \o KsImages(Tail(ps))

\* KuaishouParser._extract_from_state from "if not photo" on; photo is the
\* object the search has found, the empty object when it found none
KsExtractFromState(photo) ==
    IF DOMAIN photo = {} THEN RetNone
    ELSE
    LET title == Get(photo, "caption", Get(photo, "desc", KuaishouDefaultTitle))
        video_url == Get(photo, "srcNoMark", Get(photo, "photoUrl", ""))
        ext_photos == Get(photo, "ext_photo_list", Get(photo, "images", <<>>))
    IN  IF ext_photos # <<>> /\ video_url = ""
        THEN RetDict(MkResult(title, KsCover(photo), None, KsImages(ext_photos),
                              "kuaishou", "images"))
        ELSE RetDict(MkResult(title, KsCover(photo), OrElse(video_url, None), <<>>,
                              "kuaishou", "video"))

-----------------------------------------------------------------------------
(* xiaohongshu.py and browser_parser.py: projection of a note object *)

\* "xiaohongshu biji"
XhsDefaultTitle == "xiaohongshu note"

\* img.get("urlDefault") or img.get("url") or img.get("original") or ""
XhsImageUrl(img) ==
    IF Truthy(Get(img, "urlDefault", "")) THEN img["urlDefault"]
    ELSE IF Truthy(Get(img, "url", "")) THEN img["url"]
    ELSE IF Truthy(Get(img, "original", "")) THEN img["original"]
    ELSE ""

\* url.replace("\\u002F", "/")
Unescape(u) == Replace(u, "\\u002F", "/")

\* the loop over imageList of the native parser: objects only, the empty
\* URL is dropped, the escaped slash is replaced
RECURSIVE XhsImages(_)
XhsImages(imgs) ==
    IF imgs = <<>> THEN <<>>
    ELSE LET img == Head(imgs)
             u == XhsImageUrl(img.obj)
         IN  (IF img.kind = "dict" /\ u # "" THEN <<Unescape(u)>> ELSE <<>>)
             \o XhsImages(Tail(imgs))

\* the same loop of the browser parser, which takes the URL as it is
RECURSIVE XhsBrowserImages(_)
XhsBrowserImages(imgs) ==
    IF imgs = <<>> THEN <<>>
    ELSE LET img == Head(imgs)
             u == XhsImageUrl(img.obj)
         IN  (IF img.kind = "dict" /\ u # "" THEN <<u>> ELSE <<>>)
             \o XhsBrowserImages(Tail(imgs))

\* the first stream of the list with a masterUrl (else url) that is set
RECURSIVE FirstMaster(_)
FirstMaster(streams) ==
    IF streams = <<>> THEN ""
    ELSE LET master == Get(Head(streams), "masterUrl", Get(Head(streams), "url", ""))
         IN  IF master # "" THEN master ELSE FirstMaster(Tail(streams))

\* for codec in ["h264", "h265", "av1"]: the first codec with such a stream
XhsStreamUrl(stream) ==
    IF FirstMaster(Get(stream, "h264", <<>>)) # ""
    THEN FirstMaster(Get(stream, "h264", <<>>))
    ELSE IF FirstMaster(Get(stream, "h265", <<>>)) # ""
    THEN FirstMaster(Get(stream, "h265", <<>>))
    ELSE FirstMaster(Get(stream, "av1", <<>>))

\* the CDN address built from originVideoKey
XhsKeyUrl(vkey) == "https://sns-video-bd.xhscdn.com/" \o vkey

\* the video URL of a note's video object: "" when there is none
XhsVideoUrl(video_data, unescape) ==
    IF DOMAIN video_data = {} THEN ""
    ELSE LET master == XhsStreamUrl(Get(Get(video_data, "media", <<>>), "stream", <<>>))
             vkey == Get(video_data, "originVideoKey", "")
         IN  IF master # "" THEN (IF unescape THEN Unescape(master) ELSE master)
             ELSE IF vkey # "" THEN XhsKeyUrl(vkey)
             ELSE ""

\* XiaohongshuParser._extract_from_state from "if not note" on; note is the
\* object found for the note id, the empty object when none was found
XhsExtractFromState(note) ==
    IF DOMAIN note = {} THEN RetNone
    ELSE
    LET title == Get(note, "title", Get(note, "desc", XhsDefaultTitle))
        images == XhsImages(Get(note, "imageList", Get(note, "images", <<>>)))
        cover == FirstOr(images, "")
        video_url == XhsVideoUrl(Get(note, "video", <<>>), TRUE)
    IN  IF video_url # ""
        THEN RetDict(MkResult(title, cover, video_url, <<>>, "xiaohongshu", "video"))
        ELSE RetDict(MkResult(title, cover, None, images, "xiaohongshu", "images"))

\* BrowserParser._extract_xhs_from_state from "if not note_data" on
BrowserExtractXhs(note_data, platform) ==
    IF DOMAIN note_data = {} THEN RetNone
    ELSE
    LET title == Get(note_data, "title", Get(note_data, "desc", ""))
        images == XhsBrowserImages(Get(note_data, "imageList", <<>>))
        video_url == XhsVideoUrl(Get(note_data, "video", <<>>), FALSE)
    IN  IF title = "" THEN RetNone
        ELSE IF video_url # ""
        THEN RetDict(MkResult(OrElse(title, XhsDefaultTitle), FirstOr(images, ""),
                              video_url, <<>>, platform, "video"))
        ELSE RetDict(MkResult(OrElse(title, XhsDefaultTitle), FirstOr(images, ""),
                              None, images, platform, "images"))

\* BrowserParser._scrape_xhs_dom on what the script in the page returns:
\* title, images and videoUrl
BrowserScrapeXhsDom(result, platform) ==
    LET images == Get(result, "images", <<>>)
        video_url == Get(result, "videoUrl", None)
    IN  IF Truthy(video_url)
        THEN RetDict(MkResult(Get(result, "title", XhsDefaultTitle),
                              FirstOr(images, ""), video_url, <<>>, platform, "video"))
        ELSE RetDict(MkResult(Get(result, "title", XhsDefaultTitle),
                              FirstOr(images, ""), video_url, images, platform, "images"))

-----------------------------------------------------------------------------
(* browser_parser.py: what the three page parsers make of the page *)

\* BrowserParser._parse_xhs on a rendered page: state is the note object of
\* window.__INITIAL_STATE__ (the empty object when there is none), dom is
\* what the DOM script returns
BrowserParseXhs(page, platform) ==
    LET result == BrowserExtractXhs(page.state, platform)
    IN  IF result.kind = "dict" THEN result
        ELSE BrowserScrapeXhsDom(page.dom, platform)

\* "douyin tuji": the title of an image post without desc
DouyinGalleryTitle == "douyin images"

\* the loop of _extract_douyin_from_state over item["images"]: objects
\* only, the first element of url_list if it has one
RECURSIVE BrowserDouyinImages(_)
BrowserDouyinImages(imgs) ==
    IF imgs = <<>> THEN <<>>
    ELSE LET img == Head(imgs)
             urls == Get(img.obj, "url_list", <<>>)
         IN  (IF img.kind = "dict" /\ urls # <<>> THEN <<urls[1]>> ELSE <<>>)
             \o BrowserDouyinImages(Tail(imgs))

\* BrowserParser._extract_douyin_from_state from "if not item" on; item is
\* the object found in the state, the empty object when none was found
BrowserExtractDouyin(item, platform) ==
    IF DOMAIN item = {} THEN RetNone
    ELSE
    LET title == Get(item, "desc", Get(item, "title", ""))
        cover == FirstOr(Get(Get(Get(item, "video", <<>>), "cover", <<>>),
                             "url_list", <<>>), "")
        images == BrowserDouyinImages(Get(item, "images", <<>>))
        urls == Get(Get(Get(item, "video", <<>>), "play_addr", <<>>), "url_list", <<>>)
        video_url == IF urls # <<>> THEN StripWatermark(urls[1]) ELSE ""
    IN  IF images # <<>>
        THEN RetDict(MkResult(OrElse(title, DouyinGalleryTitle),
                              OrElse(cover, images[1]), None, images,
                              platform, "images"))
        ELSE RetDict(MkResult(OrElse(title, DouyinDefaultTitle), cover,
                              OrElse(video_url, None), <<>>, platform, "video"))

\* BrowserParser._parse_douyin on what the script in the page returns:
\* {state: ...} or {dom: {title, videoUrl, images}}
BrowserParseDouyin(data, platform) ==
    LET result == BrowserExtractDouyin(Get(data, "state", <<>>), platform)
        dom == Get(data, "dom", <<>>)
        images == Get(dom, "images", <<>>)
        video_url == Get(dom, "videoUrl", None)
    IN  IF result.kind = "dict" THEN result
        ELSE IF Truthy(video_url)
        THEN RetDict(MkResult(Get(dom, "title", DouyinDefaultTitle),
                              FirstOr(images, ""), video_url, <<>>, platform, "video"))
        ELSE RetDict(MkResult(Get(dom, "title", DouyinDefaultTitle),
                              FirstOr(images, ""), video_url, images, platform, "images"))

\* the loop of _extract_ks_from_state over the photo entries
RECURSIVE BrowserKsImages(_)
BrowserKsImages(ps) ==
    IF ps = <<>> THEN <<>>
    ELSE LET p == Head(ps)
         IN  (IF p.kind = "dict"
              THEN <<Get(p.obj, "cdn_image_url", Get(p.obj, "url", ""))>>
              ELSE <<>>)
             \o BrowserKsImages(Tail(ps))

\* BrowserParser._extract_ks_from_state from "if not photo" on; photo is the
\* object found in the state, the empty object when none was found
BrowserExtractKs(photo, platform) ==
    IF DOMAIN photo = {} THEN RetNone
    ELSE
    LET title == Get(photo, "caption", Get(photo, "desc", KuaishouDefaultTitle))
        video_url == Get(photo, "srcNoMark", Get(photo, "photoUrl", ""))
        cover == Get(photo, "coverUrl", Get(photo, "poster", ""))
        ext_photos == Get(photo, "ext_photo_list", Get(photo, "images", <<>>))
        images == IF ext_photos # <<>> /\ video_url = ""
                  THEN NonEmpty(BrowserKsImages(ext_photos))
                  ELSE <<>>
    IN  IF images # <<>> /\ video_url = ""
        THEN RetDict(MkResult(title, cover, OrElse(video_url, None), images,
                              platform, "images"))
        ELSE RetDict(MkResult(title, cover, OrElse(video_url, None), <<>>,
                              platform, "video"))

\* BrowserParser._parse_kuaishou on what the script in the page returns:
\* {state: ...} or {dom: {title, videoUrl, images: []}}
BrowserParseKuaishou(data, platform) ==
    LET result == BrowserExtractKs(Get(data, "state", <<>>), platform)
        dom == Get(data, "dom", <<>>)
    IN  IF result.kind = "dict" THEN result
        ELSE RetDict(MkResult(Get(dom, "title", KuaishouDefaultTitle), "",
                              Get(dom, "videoUrl", None), <<>>, platform, "video"))

-----------------------------------------------------------------------------
(* cookie_store.py and BrowserParser._parse_cookie_string *)

\* s.split(sep) for a separator of one character
RECURSIVE SplitFrom(_, _, _)
SplitFrom(s, sep, acc) ==
    IF s = "" THEN <<acc>>
    ELSE IF CharAt(s, 1) = sep THEN <<acc>> \o SplitFrom(Suffix(s, 1), sep, "")
         ELSE SplitFrom(Suffix(s, 1), sep, acc \o CharAt(s, 1))

Split(s, sep) == SplitFrom(s, sep, "")

\* position of the first occurrence of the character c in s, 0 if none
FirstIndex(s, c) ==
    IF \E i \in 1..Len(s) : CharAt(s, i) = c
    THEN CHOOSE i \in 1..Len(s) :
             CharAt(s, i) = c /\ \A j \in 1..(i - 1) : CharAt(s, j) # c
    ELSE 0

\* the cookies.json of cookie_store.py: missing, not JSON, a JSON value that
\* is not an object, or an object platform -> cookie string
CookieFile(kind, content) == [kind |-> kind, content |-> content]

\* load_cookies(): {} when the file is missing or not JSON, else its value
\* get_cookie(platform): load_cookies().get(platform, ""), which raises
\* AttributeError when the value is not an object
GetCookie(file, platform) ==
    IF file.kind \in {"missing", "garbage"} THEN [raised |-> FALSE, value |-> ""]
    ELSE IF file.kind = "array" THEN [raised |-> TRUE, value |-> ""]
    ELSE [raised |-> FALSE, value |-> Get(file.content, platform, "")]

\* domain_map.get(platform, f".{platform}.com")
CookieDomain(platform) ==
    CASE platform = "xiaohongshu" -> ".xiaohongshu.com"
      [] platform = "douyin" -> ".douyin.com"
      [] platform = "kuaishou" -> ".kuaishou.com"
      [] OTHER -> "." \o platform \o ".com"

\* the loop of _parse_cookie_string over the pairs
RECURSIVE CookiePairs(_, _)
CookiePairs(pairs, domain) ==
    IF pairs = <<>> THEN <<>>
    ELSE LET pair == Strip(Head(pairs))
             eq == FirstIndex(pair, "=")
         IN  (IF eq > 0
              THEN <<[name |-> Strip(Prefix(pair, eq - 1)),
                      value |-> Strip(Suffix(pair, eq)),
                      domain |-> domain, path |-> "/"]>>
              ELSE <<>>)
             \o CookiePairs(Tail(pairs), domain)

\* BrowserParser._parse_cookie_string(cookie_str, platform)
ParseCookieString(cookie_str, platform) ==
    CookiePairs(Split(cookie_str, ";"), CookieDomain(platform))

-----------------------------------------------------------------------------
(* browser_parser.py: the shared browser and BrowserParser.parse *)

\* PLATFORM_MAP of browser_parser.py, in the order of the dict
BrowserPlatformMap ==
    <<[platform |-> "douyin", domains |-> {"douyin.com", "iesdouyin.com"}],
      [platform |-> "kuaishou",
       domains |-> {"kuaishou.com", "gifshow.com", "chenzhongtech.com"}],
      [platform |-> "xiaohongshu", domains |-> {"xiaohongshu.com", "xhslink.com"}]>>

\* detect_platform of browser_parser.py
BrowserDetectPlatform(u) == DetectIn(BrowserPlatformMap, u, 1)

Tasks == 1..MaxTasks

\* the URLs BrowserParser.parse is called with
BrowserUrls == {"http://xhslink.com/x"}

\* the cookie files found on disk
CookieFiles ==
    {CookieFile("missing", <<>>),
     CookieFile("array", <<>>),
     CookieFile("object", [xiaohongshu |-> "a=1; b"])}

\* no mutual exclusion: every caller enters at once
LockFree_Always == TRUE

\* _lock is free for a caller that arrives: not held and nobody queued
LockFree == lockHolder = 0 /\ waiters = <<>>

\* the test that looks for a missing handle only
NeedsLaunch_NoneOnly == browser = 0

\* _browser is None or not _browser.is_connected()
NeedsLaunch == browser = 0 \/ browser \notin connected

\* the body of "async with _lock" as task t enters it: with a connected
\* handle the lock is released and the handle returned, and parse goes on to
\* await browser.new_context; otherwise the launch begins under the lock
EnterLocked(t) ==
    IF NeedsLaunch
    THEN /\ lockHolder' = t
         /\ bpc' = [bpc EXCEPT ![t] = "starting"]
         /\ UNCHANGED got
    ELSE /\ lockHolder' = 0
         /\ bpc' = [bpc EXCEPT ![t] = "new_context"]
         /\ got' = [got EXCEPT ![t] = browser]

\* BrowserParser.parse(url) up to its first suspension
BParseStart(t, u) ==
    /\ bpc[t] = "idle"
    /\ bplat' = [bplat EXCEPT ![t] = BrowserDetectPlatform(CleanUrl(u))]
    /\ IF LockFree
       THEN EnterLocked(t) /\ UNCHANGED <<waiters, waited>>
       ELSE /\ waiters' = Append(waiters, t)
            /\ waited' = [waited EXCEPT ![t] = TRUE]
            /\ bpc' = [bpc EXCEPT ![t] = "wait_lock"]
            /\ UNCHANGED <<lockHolder, got>>
    /\ UNCHANGED <<browser, connected, launches, launched, ctx, bpending, cookieFile>>

\* the lock is released and the first waiter gets it
LockGranted(t) ==
    /\ bpc[t] = "wait_lock"
    /\ lockHolder = 0
    /\ waiters # <<>> /\ Head(waiters) = t
    /\ waiters' = Tail(waiters)
    /\ EnterLocked(t)
    /\ UNCHANGED <<bplat, waited, browser, connected, launches, launched, ctx,
                   bpending, cookieFile>>

\* await async_playwright().start() returns
PlaywrightStarted(t) ==
    /\ bpc[t] = "starting"
    /\ bpc' = [bpc EXCEPT ![t] = "launching"]
    /\ UNCHANGED <<bplat, lockHolder, waiters, waited, browser, connected,
                   launches, launched, got, ctx, bpending, cookieFile>>

\* await _playwright.chromium.launch() returns a new browser: it becomes
\* _browser, the lock is released, _get_browser returns it
LaunchDone(t) ==
    /\ bpc[t] = "launching"
    /\ launches < MaxLaunches
    /\ launches' = launches + 1
    /\ browser' = launches + 1
    /\ connected' = connected \cup {launches + 1}
    /\ launched' = [launched EXCEPT ![t] = launches + 1]
    /\ got' = [got EXCEPT ![t] = launches + 1]
    /\ lockHolder' = 0
    /\ bpc' = [bpc EXCEPT ![t] = "new_context"]
    /\ UNCHANGED <<bplat, waiters, waited, ctx, bpending, cookieFile>>

\* lines 80-86 once new_context has returned: the cookie lookup, then the
\* await of add_cookies or of new_page
AfterNewContext(t) ==
    LET c == GetCookie(cookieFile, bplat[t])
        cookies == ParseCookieString(c.value, bplat[t])
    IN  IF c.raised THEN "raised"
        ELSE IF c.value # "" /\ cookies # <<>> THEN "add_cookies"
        ELSE "new_page"

\* await browser.new_context(...) returns a context
NewContextDone(t) ==
    /\ bpc[t] = "new_context"
    /\ got[t] \in connected
    /\ ctx' = [ctx EXCEPT ![t] = "open"]
    /\ bpc' = [bpc EXCEPT ![t] = AfterNewContext(t)]
    /\ UNCHANGED <<bplat, lockHolder, waiters, waited, browser, connected,
                   launches, launched, got, bpending, cookieFile>>

\* await context.add_cookies(cookies) returns
AddCookiesDone(t) ==
    /\ bpc[t] = "add_cookies"
    /\ bpc' = [bpc EXCEPT ![t] = "new_page"]
    /\ UNCHANGED <<bplat, lockHolder, waiters, waited, browser, connected,
                   launches, launched, got, ctx, bpending, cookieFile>>

\* await context.new_page() returns: the try block is entered
NewPageDone(t) ==
    /\ bpc[t] = "new_page"
    /\ bpc' = [bpc EXCEPT ![t] = "goto"]
    /\ UNCHANGED <<bplat, lockHolder, waiters, waited, browser, connected,
                   launches, launched, got, ctx, bpending, cookieFile>>

\* await page.goto(...) returns
GotoDone(t) ==
    /\ bpc[t] = "goto"
    /\ bpc' = [bpc EXCEPT ![t] = "settle"]
    /\ UNCHANGED <<bplat, lockHolder, waiters, waited, browser, connected,
                   launches, launched, got, ctx, bpending, cookieFile>>

\* await page.wait_for_timeout(3000) returns: the extraction of the platform
\* is awaited, or ValueError is raised for an unknown platform; the finally
\* clause then awaits context.close()
SettleDone(t) ==
    /\ bpc[t] = "settle"
    /\ IF bplat[t] \in {"xiaohongshu", "douyin", "kuaishou"}
       THEN /\ bpc' = [bpc EXCEPT ![t] = "extract"]
            /\ UNCHANGED bpending
       ELSE /\ bpc' = [bpc EXCEPT ![t] = "closing"]
            /\ bpending' = [bpending EXCEPT ![t] = "raise"]
    /\ UNCHANGED <<bplat, lockHolder, waiters, waited, browser, connected,
                   launches, launched, got, ctx, cookieFile>>

\* the extraction returns its dict: finally awaits context.close()
ExtractDone(t) ==
    /\ bpc[t] = "extract"
    /\ bpc' = [bpc EXCEPT ![t] = "closing"]
    /\ bpending' = [bpending EXCEPT ![t] = "dict"]
    /\ UNCHANGED <<bplat, lockHolder, waiters, waited, browser, connected,
                   launches, launched, got, ctx, cookieFile>>

\* await context.close() returns: parse returns the dict or re-raises
CloseDone(t) ==
    /\ bpc[t] = "closing"
    /\ ctx' = [ctx EXCEPT ![t] = IF ctx[t] = "open" THEN "closed" ELSE ctx[t]]
    /\ bpc' = [bpc EXCEPT ![t] = IF bpending[t] = "dict" THEN "returned" ELSE "raised"]
    /\ UNCHANGED <<bplat, lockHolder, waiters, waited, browser, connected,
                   launches, launched, got, bpending, cookieFile>>

\* the awaited call of task t raises: under the lock the lock is released
\* and the exception leaves parse; before the try block it leaves parse;
\* inside the try block the finally clause awaits context.close(); a raising
\* close leaves parse
AwaitFails(t) ==
    /\ bpc[t] \in {"starting", "launching", "new_context", "add_cookies",
                   "new_page", "goto", "settle", "extract", "closing"}
    /\ bpc[t] = "closing" => ctx[t] = "lost"
    /\ IF bpc[t] \in {"goto", "settle", "extract"}
       THEN /\ bpc' = [bpc EXCEPT ![t] = "closing"]
            /\ bpending' = [bpending EXCEPT ![t] = "raise"]
       ELSE /\ bpc' = [bpc EXCEPT ![t] = "raised"]
            /\ UNCHANGED bpending
    /\ lockHolder' = IF bpc[t] \in {"starting", "launching"} THEN 0 ELSE lockHolder
    /\ UNCHANGED <<bplat, waiters, waited, browser, connected, launches,
                   launched, got, ctx, cookieFile>>

\* the browser process b dies; its contexts die with it
Disconnect(b) ==
    /\ b \in connected
    /\ connected' = connected \ {b}
    /\ ctx' = [t \in Tasks |-> IF ctx[t] = "open" /\ got[t] = b THEN "lost" ELSE ctx[t]]
    /\ UNCHANGED <<bpc, bplat, lockHolder, waiters, waited, browser, launches,
                   launched, got, bpending, cookieFile>>

BrowserIdle ==
    /\ bpc = [t \in Tasks |-> "idle"]
    /\ bplat = [t \in Tasks |-> "unknown"]
    /\ lockHolder = 0
    /\ waiters = <<>>
    /\ waited = [t \in Tasks |-> FALSE]
    /\ browser = 0
    /\ connected = {}
    /\ launches = 0
    /\ launched = [t \in Tasks |-> 0]
    /\ got = [t \in Tasks |-> 0]
    /\ ctx = [t \in Tasks |-> "none"]
    /\ bpending = [t \in Tasks |-> "none"]

\* no cookies.json on disk
BrowserInit == BrowserIdle /\ cookieFile = CookieFile("missing", <<>>)

-----------------------------------------------------------------------------
(* The normalizers on their own: each action hands one payload to one      *)
(* normalizer and keeps what it made of it                                 *)

\* the sequences over S of length at most n
SeqsUpTo(S, n) == UNION {[1..k -> S] : k \in 0..n}

\* titles and video addresses of the payloads: absent-like and present
PayloadTitles == {"", "T"}

PayloadVideos == {"", "http://v/playwm/1.mp4"}

\* image entries of the aggregator endpoints: strings and objects
UrlEntries ==
    {SV(""), SV("a"), OV([url |-> ""]), OV([url |-> "b"])}

\* image entries of the Douyin shapes
UrlListEntries ==
    {SV(""), SV("a"), OV([url_list |-> <<>>]), OV([url_list |-> <<"b">>]),
     OV([url |-> "c"])}

\* photo entries of the Kuaishou state
PhotoEntries ==
    {SV("a"), OV([url |-> ""]), OV([url |-> "a"]), OV([cdn_image_url |-> "b"])}

\* image entries of the Xiaohongshu note
NoteImageEntries ==
    {SV("a"), OV([urlDefault |-> "", url |-> "a\\u002Fb"]),
     OV([urlDefault |-> ""]), OV([original |-> "c"])}

\* video objects of the Xiaohongshu note
NoteVideos ==
    {<<>>,
     [media |-> [stream |-> [h264 |-> <<>>,
                             h265 |-> <<[masterUrl |-> "http:\\u002F\\u002Fv\\u002F265"]>>]]],
     [media |-> [stream |-> [h264 |-> <<[masterUrl |-> ""], [url |-> "http://v/264"]>>]],
      originVideoKey |-> "k"],
     [originVideoKey |-> "k"],
     [media |-> <<>>]}

\* payloads that hold a field under two of its candidate keys, the first
\* of them empty or not
PearktrueTwoKeys ==
    {[code |-> "200",
      data |-> [title |-> t, desc |-> "D", cover |-> c, thumbnail |-> "http://c/2",
                url |-> v, video |-> "http://v/2.mp4",
                images |-> im, pics |-> p]] :
         t \in PayloadTitles, c \in {"", "http://c/1"}, v \in PayloadVideos,
         im \in {<<>>, <<SV("a")>>}, p \in {<<>>, <<SV("p")>>}}

GenericTwoKeys ==
    {[status |-> "101",
      data |-> [title |-> t, work_title |-> "W", cover |-> c,
                work_cover |-> "http://c/2", url |-> v,
                work_url |-> "http://v/2.mp4", images |-> im, pics |-> p]] :
         t \in PayloadTitles, c \in {"", "http://c/1"}, v \in PayloadVideos,
         im \in {<<>>, <<SV("a")>>}, p \in {<<>>, <<SV("p")>>}}

KsTwoKeys ==
    {[caption |-> t, desc |-> "D", coverUrl |-> c, poster |-> "http://c/2",
      srcNoMark |-> v, photoUrl |-> "http://v/2.mp4"] :
         t \in PayloadTitles, c \in {"", "http://c/1"}, v \in PayloadVideos}

PearktruePayloads ==
    {[code |-> "404"]}
    \cup PearktrueTwoKeys
    \cup {[code |-> "200", data |-> [title |-> t, url |-> v, images |-> im]] :
              t \in PayloadTitles, v \in PayloadVideos,
              im \in SeqsUpTo(UrlEntries, MaxImages)}

GenericPayloads ==
    {[status |-> "500"]}
    \cup GenericTwoKeys
    \cup {[status |-> "101",
           data |-> [work_title |-> t, work_url |-> v, pics |-> im]] :
              t \in PayloadTitles, v \in PayloadVideos,
              im \in SeqsUpTo(UrlEntries, MaxImages)}

DouyinItems ==
    {[desc |-> t, video |-> [play_addr |-> [url_list |-> ul]], images |-> im] :
         t \in PayloadTitles,
         ul \in {<<>>, <<"http://v/playwm/1.mp4">>},
         im \in SeqsUpTo(UrlListEntries, MaxImages)}

\* the parts the video addresses of the Douyin payloads are made of
UrlParts == {"playwm", "wm", "play", "/v"}

RECURSIVE UrlTexts(_)
UrlTexts(n) ==
    IF n = 0 THEN {""}
    ELSE LET shorter == UrlTexts(n - 1)
         IN  shorter \cup {t \o q : t \in shorter, q \in UrlParts}

VideoUrls == UrlTexts(MaxUrlParts) \ {""}

\* items of a video post: no images, the address in play_addr
DouyinVideoItems ==
    {[desc |-> "T", video |-> [play_addr |-> [url_list |-> <<u>>]]] :
         u \in VideoUrls}

\* the encoded variants of a video: of three bit rates, two of the highest,
\* one without bit_rate and one without an address
Variants ==
    {[bit_rate |-> 240, play_addr |-> [url_list |-> <<"http://v/240">>]],
     [bit_rate |-> 480, play_addr |-> [url_list |-> <<"http://v/480">>]],
     [bit_rate |-> 720, play_addr |-> [url_list |-> <<"http://v/playwm/720">>]],
     [bit_rate |-> 720, play_addr |-> [url_list |-> <<"http://v/720b">>]],
     [play_addr |-> [url_list |-> <<"http://v/0">>]],
     [bit_rate |-> 720, play_addr |-> [url_list |-> <<>>]]}

\* items of a video post with variants, with and without an address of
\* its own
DouyinVariantItems ==
    {[desc |-> "T", video |-> [play_addr |-> [url_list |-> ul], bit_rate |-> vs]] :
         ul \in {<<>>, <<"http://v/own">>},
         vs \in SeqsUpTo(Variants, MaxVariants) \ {<<>>}}

WtfPayloads ==
    {[code |-> "500"]}
    \cup {[code |-> "200", data |-> d] : d \in DouyinItems \cup DouyinVariantItems}

DetailPayloads ==
    {[item_list |-> <<>>]}
    \cup {[item_list |-> <<d>>] :
              d \in DouyinItems \cup DouyinVideoItems \cup DouyinVariantItems}

KsPhotos ==
    {<<>>}
    \cup {[caption |-> t, srcNoMark |-> v, ext_photo_list |-> im] :
              t \in PayloadTitles, v \in PayloadVideos,
              im \in SeqsUpTo(PhotoEntries, MaxImages)}

XhsNotes ==
    {<<>>}
    \cup {[title |-> t, imageList |-> im, video |-> vd] :
              t \in PayloadTitles, vd \in NoteVideos,
              im \in SeqsUpTo(NoteImageEntries, MaxImages)}

\* what the DOM script of _scrape_xhs_dom returns: the title may be '', the
\* images are the non-empty src values, videoUrl is a src or null
XhsDoms ==
    {[title |-> t, images |-> im, videoUrl |-> v] :
         t \in PayloadTitles, v \in {None, "http://v/1.mp4"},
         im \in SeqsUpTo({"a", "b"}, MaxImages)}

\* what the script of _parse_douyin returns
DouyinPages ==
    {[state |-> d] : d \in DouyinItems}
    \cup {[dom |-> [title |-> t, videoUrl |-> v, images |-> im]] :
              t \in PayloadTitles, v \in {None, "http://v/playwm/1.mp4"},
              im \in SeqsUpTo({"a", "b"}, MaxImages)}

\* what the script of _parse_kuaishou returns
KsPages ==
    {[state |-> p] : p \in KsPhotos \cup KsTwoKeys}
    \cup {[dom |-> [title |-> t, videoUrl |-> v, images |-> <<>>]] :
              t \in PayloadTitles, v \in {None, "http://v/1.mp4"}}

\* normalizer fn is applied to payload in and hands back out
Normalize(fn, in, out) ==
    /\ nFn = "none"
    /\ nFn' = fn
    /\ nIn' = in
    /\ nOut' = out

NormPearktrue ==
    \E d \in PearktruePayloads :
        Normalize("_parse_pearktrue", d, ParsePearktrue(d, "kuaishou"))

NormGenericV1 ==
    \E d \in GenericPayloads :
        Normalize("_parse_generic_v1", d, ParseGenericV1(d, "xiaohongshu"))

NormDouyinWtf ==
    \E d \in WtfPayloads :
        Normalize("_parse_douyin_wtf", d, ParseDouyinWtf(d, "douyin"))

NormDouyinDetail ==
    \E d \in DetailPayloads :
        Normalize("DouyinParser._fetch_detail", d, DouyinFetchDetail(d))

NormKuaishouState ==
    \E p \in KsPhotos :
        Normalize("KuaishouParser._extract_from_state", p, KsExtractFromState(p))

NormXhsState ==
    \E n \in XhsNotes :
        Normalize("XiaohongshuParser._extract_from_state", n, XhsExtractFromState(n))

NormBrowserXhsState ==
    \E n \in XhsNotes :
        Normalize("_extract_xhs_from_state", n, BrowserExtractXhs(n, "xiaohongshu"))

NormBrowserXhsDom ==
    \E d \in XhsDoms :
        Normalize("_scrape_xhs_dom", d, BrowserScrapeXhsDom(d, "xiaohongshu"))

NormBrowserDouyin ==
    \E d \in DouyinPages :
        Normalize("_parse_douyin", d, BrowserParseDouyin(d, "douyin"))

NormBrowserKuaishou ==
    \E d \in KsPages :
        Normalize("_parse_kuaishou", d, BrowserParseKuaishou(d, "kuaishou"))

\* the caller is done with what the normalizer handed back
NormForget ==
    /\ nFn # "none"
    /\ nFn' = "none"
    /\ nIn' = <<>>
    /\ nOut' = RetNone

NormInit ==
    /\ nFn = "none"
    /\ nIn = <<>>
    /\ nOut = RetNone

-----------------------------------------------------------------------------
(* The recursive searches of the state extractors. A JSON value is a       *)
(* dict (keys and values in insertion order), a list or a string; a        *)
(* search hands back what it found together with the deepest level and     *)
(* the highest list index it has looked at                                 *)

Dict(keys, vals) == [kind |-> "dict", keys |-> keys, vals |-> vals]

List(items) == [kind |-> "list", items |-> items]

Str(s) == [kind |-> "str", str |-> s]

\* key in obj
HasKey(obj, key) == \E i \in 1..Len(obj.keys) : obj.keys[i] = key

\* obj.get(key) == value
KeyIs(obj, key, value) ==
    \E i \in 1..Len(obj.keys) : obj.keys[i] = key /\ obj.vals[i] = Str(value)

MaxOf(S) == CHOOSE m \in S : \A n \in S : n <= m

Looked(hit, found, deepest, widest) ==
    [kind |-> "search", hit |-> hit, found |-> found,
     deepest |-> deepest, widest |-> widest]

\* the call has looked at the node at this depth and found nothing in it
Nothing(depth) == Looked(FALSE, <<>>, depth, 0)

\* the call has returned at its depth guard
NotLooked == Looked(FALSE, <<>>, -1, 0)

\* for child in children: r = search(child); if r: return r -- rs[i] is
\* what the search makes of the i-th child; the loop stops at the first hit
FirstHit(rs, depth, indexed) ==
    LET hits == {i \in 1..Len(rs) : rs[i].hit}
        stop == IF hits = {} THEN Len(rs) ELSE CHOOSE i \in hits : \A j \in hits : i <= j
    IN  Looked(hits # {},
               IF hits = {} THEN <<>> ELSE rs[stop].found,
               MaxOf({depth} \cup {rs[i].deepest : i \in 1..stop}),
               MaxOf({IF indexed THEN stop ELSE 0} \cup {rs[i].widest : i \in 1..stop}))

\* obj[:30] of _deep_find
DeepFindItems == 30

\* BrowserParser._deep_find(obj, key, max_depth, depth)
RECURSIVE DeepFind(_, _, _, _)
DeepFind(obj, key, max_depth, depth) ==
    IF depth > max_depth THEN NotLooked
    ELSE IF obj.kind = "dict"
    THEN IF HasKey(obj, key) THEN Looked(TRUE, obj, depth, 0)
         ELSE FirstHit([i \in 1..Len(obj.vals) |->
                            DeepFind(obj.vals[i], key, max_depth, depth + 1)],
                       depth, FALSE)
    ELSE IF obj.kind = "list"
    THEN FirstHit([i \in 1..Min(DeepFindItems, Len(obj.items)) |->
                       DeepFind(obj.items[i], key, max_depth, depth + 1)],
                  depth, TRUE)
    ELSE Nothing(depth)

\* if depth > 8 of _find_note
FindNoteDepth == 8

\* obj[:50] of _find_note
FindNoteItems == 50

\* XiaohongshuParser._find_note(obj, note_id, depth)
RECURSIVE FindNote(_, _, _)
FindNote(obj, note_id, depth) ==
    IF depth > FindNoteDepth THEN NotLooked
    ELSE IF obj.kind = "dict"
    THEN IF /\ KeyIs(obj, "noteId", note_id) \/ KeyIs(obj, "id", note_id)
            /\ HasKey(obj, "title") \/ HasKey(obj, "desc") \/ HasKey(obj, "imageList")
         THEN Looked(TRUE, obj, depth, 0)
         ELSE FirstHit([i \in 1..Len(obj.vals) |->
                            FindNote(obj.vals[i], note_id, depth + 1)],
                       depth, FALSE)
    ELSE IF obj.kind = "list"
    THEN FirstHit([i \in 1..Min(FindNoteItems, Len(obj.items)) |->
                       FindNote(obj.items[i], note_id, depth + 1)],
                  depth, TRUE)
    ELSE Nothing(depth)

\* KuaishouParser._find_photo(obj, photo_id): depth is the level of obj,
\* which the code does not track
RECURSIVE FindPhoto(_, _, _)
FindPhoto(obj, photo_id, depth) ==
    IF obj.kind = "dict"
    THEN IF KeyIs(obj, "photoId", photo_id) \/ KeyIs(obj, "photo_id", photo_id)
         THEN Looked(TRUE, obj, depth, 0)
         ELSE FirstHit([i \in 1..Len(obj.vals) |->
                            FindPhoto(obj.vals[i], photo_id, depth + 1)],
                       depth, FALSE)
    ELSE IF obj.kind = "list"
    THEN FirstHit([i \in 1..Len(obj.items) |->
                       FindPhoto(obj.items[i], photo_id, depth + 1)],
                  depth, TRUE)
    ELSE Nothing(depth)

\* n dicts around inner, each with the one key "a"
RECURSIVE Nest(_, _)
Nest(n, inner) ==
    IF n = 0 THEN inner ELSE Dict(<<"a">>, <<Nest(n - 1, inner)>>)

\* a list with inner at index k behind k - 1 strings
Wide(k, inner) == List([i \in 1..k |-> IF i = k THEN inner ELSE Str("f")])

\* the record every search is after, and one none of them is after
Wanted ==
    Dict(<<"photoId", "noteId", "title", "caption", "desc">>,
         <<Str("1"), Str("1"), Str("T"), Str("T"), Str("T")>>)

Unwanted == Dict(<<"b">>, <<Str("c")>>)

\* the list positions around the cuts of the searches
WideAt == {1, DeepFindItems, DeepFindItems + 1, FindNoteItems, FindNoteItems + 1}

\* deep and wide states: the record under n dicts, in a list at the bottom
\* or at the top of them
SearchTrees ==
    {Nest(n, t) : n \in 0..MaxNest, t \in {Wanted, Unwanted}}
    \cup {Nest(n, Wide(k, t)) : n \in 0..MaxNest, k \in WideAt, t \in {Wanted, Unwanted}}
    \cup {Wide(k, Nest(n, t)) : n \in 0..MaxNest, k \in WideAt, t \in {Wanted, Unwanted}}

\* the two calls of _deep_find: ("desc", max_depth=4), ("caption", max_depth=5)
DeepFindCalls == {[key |-> "desc", max_depth |-> 4], [key |-> "caption", max_depth |-> 5]}

NormDeepFind ==
    \E t \in SearchTrees, c \in DeepFindCalls :
        Normalize("_deep_find", [obj |-> t, key |-> c.key, max_depth |-> c.max_depth],
                  DeepFind(t, c.key, c.max_depth, 0))

NormFindNote ==
    \E t \in SearchTrees :
        Normalize("_find_note", [obj |-> t, note_id |-> "1"], FindNote(t, "1", 0))

NormFindPhoto ==
    \E t \in SearchTrees :
        Normalize("_find_photo", [obj |-> t, photo_id |-> "1"], FindPhoto(t, "1", 0))

-----------------------------------------------------------------------------
(* The two detect_platform functions on their own *)

\* the domains of PLATFORM_MAP of aggregator.py
AggDomains == UNION {AggPlatformMap[i].domains : i \in 1..Len(AggPlatformMap)}

\* share links: a host and a path or query that may name a host as well
DetectUrls ==
    {"http://" \o a \o "/" \o b :
         a \in AggDomains \cup {"example.org"}, b \in AggDomains \cup {"x"}}

Detected(platform) == [kind |-> "platform", platform |-> platform]

NormAggDetect ==
    \E u \in DetectUrls :
        Normalize("aggregator.detect_platform", u, Detected(AggDetectPlatform(u)))

NormBrowserDetect ==
    \E u \in DetectUrls :
        Normalize("browser_parser.detect_platform", u,
                  Detected(BrowserDetectPlatform(u)))

-----------------------------------------------------------------------------
(* DouyinParser.parse on its own, with the answers of the network *)

\* a short link, a link with the id in its path, one with modal_id
DouyinLinks ==
    {"https://v.douyin.com/abc/", "https://www.douyin.com/video/123",
     "https://www.douyin.com/discover?modal_id=45"}

Answer(kind, u, text, status, data, msg) ==
    [kind |-> kind, url |-> u, text |-> text, status |-> status, data |-> data,
     reason |-> IF status = 200 THEN "OK" ELSE "Server Error", msg |-> msg]

\* the request was not made
NotAsked == Answer("none", "", "", 0, <<>>, "")

\* what following the share link ends in: the final URL and the page
RedirectAnswers ==
    {Answer("ok", f, h, 200, <<>>, "") :
         f \in {"https://www.iesdouyin.com/share/video/123/", "https://www.douyin.com/"},
         h \in {"{\"aweme_id\" : \"77\"}", "itemId='9'", "itemId=9"}}
    \cup {Answer("raise", "", "", 0, <<>>, "ConnectTimeout")}

\* items whose url_list holds a marked address behind an unmarked one
DouyinSecondItems ==
    {[desc |-> "T",
      video |-> [play_addr |-> [url_list |-> <<"http://v/1", "http://v/playwm/2">>]]]}

\* what the detail endpoint answers
DetailAnswers ==
    {Answer("ok", "", "", 200, [item_list |-> <<d>>], "") :
         d \in {i \in DouyinItems : Len(i.images) <= 1}
                   \cup DouyinVideoItems \cup DouyinSecondItems}
    \cup {Answer("ok", "", "", 200, [item_list |-> <<>>], ""),
          Answer("ok", "", "", 500, <<>>, ""),
          Answer("raise", "", "", 0, <<>>, "ReadTimeout")}

\* the id the parser has after the share link was followed
ResolvedId(u, redirect) ==
    IF ExtractItemId(u) # None THEN ExtractItemId(u)
    ELSE IF redirect.kind # "ok" THEN None
    ELSE IF ExtractItemId(redirect.url) # None THEN ExtractItemId(redirect.url)
    ELSE ExtractFromHtml(redirect.text)

NormDouyinParse ==
    \E u \in DouyinLinks :
        \E r \in IF ExtractItemId(u) # None THEN {NotAsked} ELSE RedirectAnswers :
            \E d \in IF ResolvedId(u, r) = None THEN {NotAsked} ELSE DetailAnswers :
                Normalize("DouyinParser.parse", [url |-> u, redirect |-> r, detail |-> d],
                          DouyinParse(u, r, d))

-----------------------------------------------------------------------------
(* DouyinParser.parse step by step: the requests it sends, in order *)

\* the lookup that scans the page before the resolved URL
IdAfterRedirect_HtmlFirst(resp) ==
    IF ExtractFromHtml(resp.text) # None THEN ExtractFromHtml(resp.text)
    ELSE ExtractItemId(resp.url)

\* item_id = _extract_item_id(str(resp.url)), and if there is none
\* item_id = _extract_from_html(resp.text)
IdAfterRedirect(resp) ==
    IF ExtractItemId(resp.url) # None THEN ExtractItemId(resp.url)
    ELSE ExtractFromHtml(resp.text)

\* a request as the client sends it
Request(to, item_ids) == [to |-> to, item_ids |-> item_ids]

\* return await cls._fetch_detail(client, item_id): the GET of the detail
\* endpoint is sent and awaited
DCallDetail(item_id) ==
    /\ dItemId' = item_id
    /\ dSent' = Append(dSent, Request("detail", item_id))
    /\ dpc' = "await_detail"
    /\ UNCHANGED dOut

\* if not item_id: raise ValueError(...), else the detail endpoint
DAfterLookup(item_id) ==
    IF ~Truthy(item_id)
    THEN /\ dpc' = "raised"
         /\ dOut' = RetRaise(ErrNoItemId)
         /\ UNCHANGED <<dItemId, dSent>>
    ELSE DCallDetail(item_id)

\* parse(url) up to its first suspension: the id of the share URL, or the
\* GET of the share URL
DParseStart(u) ==
    /\ dpc = "idle"
    /\ dUrl' = u
    /\ IF ExtractItemId(u) # None
       THEN DCallDetail(ExtractItemId(u))
       ELSE /\ dSent' = Append(dSent, Request("share", None))
            /\ dpc' = "await_share"
            /\ UNCHANGED <<dItemId, dOut>>
    /\ UNCHANGED <<dPage, dDetail>>

\* await client.get(url) returns the response the redirects ended in
DShareReturns(resp) ==
    /\ dpc = "await_share"
    /\ resp.kind = "ok"
    /\ dPage' = resp
    /\ DAfterLookup(IdAfterRedirect(resp))
    /\ UNCHANGED <<dUrl, dDetail>>

\* await client.get(url) raises
DShareRaises(resp) ==
    /\ dpc = "await_share"
    /\ resp.kind = "raise"
    /\ dPage' = resp
    /\ dpc' = "raised"
    /\ dOut' = RetRaise(resp.msg)
    /\ UNCHANGED <<dUrl, dItemId, dSent, dDetail>>

\* the GET of the detail endpoint returns or raises: the rest of
\* _fetch_detail
DDetailAnswers(d) ==
    /\ dpc = "await_detail"
    /\ dDetail' = d
    /\ dOut' = IF d.kind = "raise" THEN RetRaise(d.msg)
               ELSE IF d.status \notin 200..299
               THEN RetRaise("HTTPStatusError " \o d.reason)
               ELSE DouyinFetchDetail(d.data)
    /\ dpc' = IF dOut'.kind = "dict" THEN "returned" ELSE "raised"
    /\ UNCHANGED <<dUrl, dItemId, dSent, dPage>>

DouyinInit ==
    /\ dpc = "idle"
    /\ dUrl = ""
    /\ dItemId = None
    /\ dSent = <<>>
    /\ dPage = NotAsked
    /\ dDetail = NotAsked
    /\ dOut = RetNone

-----------------------------------------------------------------------------
(* What a strategy's parse can do *)

\* the pages BrowserParser meets in the chain: a note in the state, a video
\* in the DOM only, a page with neither
ChainXhsPages ==
    {[state |-> [title |-> "T", imageList |-> <<OV([urlDefault |-> "a"])>>],
      dom |-> [title |-> "", images |-> <<>>, videoUrl |-> None]],
     [state |-> <<>>,
      dom |-> [title |-> "T", images |-> <<>>, videoUrl |-> "http://v/1.mp4"]],
     [state |-> <<>>, dom |-> [title |-> "", images |-> <<>>, videoUrl |-> None]]}

ChainDouyinPages ==
    {[state |-> [desc |-> "T",
                 video |-> [play_addr |-> [url_list |-> <<"http://v/playwm/1.mp4">>]]]],
     [dom |-> [title |-> "T", videoUrl |-> None, images |-> <<"a">>]],
     [dom |-> [title |-> "", videoUrl |-> None, images |-> <<>>]]}

ChainKsPages ==
    {[state |-> [caption |-> "T", srcNoMark |-> "http://v/1.mp4"]],
     [state |-> [caption |-> "T",
                 ext_photo_list |-> <<OV([url |-> ""]), OV([cdn_image_url |-> "b"])>>]],
     [dom |-> [title |-> "", videoUrl |-> None, images |-> <<>>]]}

\* the answers of the detail API DouyinParser meets in the chain
ChainDetails ==
    {[item_list |-> <<[desc |-> "T",
                       video |-> [play_addr |-> [url_list |-> <<"http://v/playwm/1.mp4">>]]]>>],
     [item_list |-> <<[desc |-> "T", images |-> <<OV([url_list |-> <<"a">>])>>]>>],
     [item_list |-> <<[desc |-> "T"]>>]}

\* the photo objects KuaishouParser meets in the chain
ChainPhotos ==
    {[caption |-> "T", srcNoMark |-> "http://v/1.mp4"],
     [caption |-> "T",
      ext_photo_list |-> <<OV([url |-> ""]), OV([cdn_image_url |-> "b"])>>],
     [caption |-> "T"]}

\* the note objects XiaohongshuParser meets in the chain
ChainNotes ==
    {[title |-> "T", video |-> [originVideoKey |-> "k"]],
     [title |-> "T", imageList |-> <<OV([urlDefault |-> "a"])>>],
     [title |-> "T"]}

\* what the parse of strategy p hands back for u when it does not raise
StrategyOutcomes(p, u) ==
    CASE p = "BrowserParser" ->
             LET platform == BrowserDetectPlatform(u)
             IN  CASE platform = "xiaohongshu" ->
                          {BrowserParseXhs(pg, platform) : pg \in ChainXhsPages}
                   [] platform = "douyin" ->
                          {BrowserParseDouyin(d, platform) : d \in ChainDouyinPages}
                   [] platform = "kuaishou" ->
                          {BrowserParseKuaishou(d, platform) : d \in ChainKsPages}
                   [] OTHER -> {}
      [] p = "AggregatorParser" ->
             UNION {{TryApi(APIS[i], 200, data, AggDetectPlatform(u)) :
                         data \in ApiBodies(APIS[i].parse)} : i \in 1..Len(APIS)}
      [] p = "DouyinParser" -> {DouyinFetchDetail(d) : d \in ChainDetails}
      [] p = "KuaishouParser" -> {KsExtractFromState(ph) : ph \in ChainPhotos}
      [] p = "XiaohongshuParser" -> {XhsExtractFromState(n) : n \in ChainNotes}

\* the dicts the parse of strategy p returns for u
StrategyReturns(p, u) ==
    {o.res : o \in {x \in StrategyOutcomes(p, u) : x.kind = "dict"}}

\* the exception classes the strategies raise (ValueError in the parsers,
\* httpx errors of the requests and of raise_for_status, Playwright errors of
\* the browser, AttributeError and the like on a malformed payload) and the
\* class each derives from
ExcParent ==
    [ValueError |-> "Exception", HTTPError |-> "Exception",
     PlaywrightError |-> "Exception", AttributeError |-> "Exception",
     Exception |-> "BaseException", BaseException |-> "object"]

RECURSIVE IsSubclass(_, _)
IsSubclass(cls, base) ==
    \/ cls = base
    \/ cls \in DOMAIN ExcParent /\ IsSubclass(ExcParent[cls], base)

\* the exceptions a strategy's parse raises: str(e) shorter and longer than
\* the diagnostic keeps
Exceptions ==
    {[cls |-> "ValueError", msg |-> "no id"],
     [cls |-> "PlaywrightError", msg |-> Rep("e", MsgLimit) \o "!"]}

-----------------------------------------------------------------------------
(* parse_link: the fallback chain *)

Reqs == 1..MaxReqs

\* the pieces share texts are made of
RawPieces ==
    {"http://", "https://", " ", "douyin.com", "kuaishou.com", "xhslink.com", "/x"}

RECURSIVE Texts(_)
Texts(n) ==
    IF n = 0 THEN {""}
    ELSE LET shorter == Texts(n - 1)
         IN  shorter \cup {t \o q : t \in shorter, q \in RawPieces}

\* the request bodies
RawInputs == Texts(MaxRawLen)

Call(p, out, res, msg) == [parser |-> p, out |-> out, result |-> res, msg |-> msg]

\* the for loop of parse_link from position i up to the next await or the
\* end of the list: can_handle is asked of each parser in turn, the first
\* applicable one has its parse awaited
RECURSIVE Loop(_, _, _)
Loop(u, i, asked) ==
    IF i > Len(PARSERS) THEN [idx |-> i, probes |-> asked, found |-> FALSE]
    ELSE IF CanHandle(PARSERS[i], u)
         THEN [idx |-> i, probes |-> Append(asked, PARSERS[i]), found |-> TRUE]
         ELSE Loop(u, i + 1, Append(asked, PARSERS[i]))

\* the loop with the diagnostic kept in one place for all the requests
Continue_SharedDiagnostic(r, u, i, le, log) ==
    LET l == Loop(u, i, probes[r])
    IN  /\ idx' = [idx EXCEPT ![r] = l.idx]
        /\ probes' = [probes EXCEPT ![r] = l.probes]
        /\ last_error' = [q \in Reqs |-> le]
        /\ IF l.found
           THEN /\ pc' = [pc EXCEPT ![r] = "await"]
                /\ calls' = [calls EXCEPT ![r] =
                       Append(log, Call(PARSERS[l.idx], "pending", NoResult, ""))]
                /\ UNCHANGED response
           ELSE /\ pc' = [pc EXCEPT ![r] = "done"]
                /\ calls' = [calls EXCEPT ![r] = log]
                /\ response' = [response EXCEPT ![r] = FailureResponse(le)]

\* run the loop of request r from position i with the diagnostic le
Continue(r, u, i, le, log) ==
    LET l == Loop(u, i, probes[r])
    IN  /\ idx' = [idx EXCEPT ![r] = l.idx]
        /\ probes' = [probes EXCEPT ![r] = l.probes]
        /\ last_error' = [last_error EXCEPT ![r] = le]
        /\ IF l.found
           THEN /\ pc' = [pc EXCEPT ![r] = "await"]
                /\ calls' = [calls EXCEPT ![r] =
                       Append(log, Call(PARSERS[l.idx], "pending", NoResult, ""))]
                /\ UNCHANGED response
           ELSE /\ pc' = [pc EXCEPT ![r] = "done"]
                /\ calls' = [calls EXCEPT ![r] = log]
                /\ response' = [response EXCEPT ![r] = FailureResponse(le)]

\* POST /api/parse arrives: lines 98-109 up to the first await
Receive(r, raw) ==
    /\ pc[r] = "idle"
    /\ LET u == CleanUrl(raw)
       IN  /\ url' = [url EXCEPT ![r] = u]
           /\ IF ~UrlGuard(u)
              THEN /\ pc' = [pc EXCEPT ![r] = "done"]
                   /\ response' = [response EXCEPT ![r] = FailureResponse(ErrInvalidLink)]
                   /\ UNCHANGED <<idx, last_error, calls, probes>>
              ELSE Continue(r, u, 1, ErrUnsupported, calls[r])

\* the dicts the parse that request r awaits can return
AwaitedReturns(r) ==
    IF pc[r] = "await" THEN StrategyReturns(PARSERS[idx[r]], url[r]) ELSE {}

\* the awaited parse returns the dict res
ParseReturns(r, res) ==
    /\ pc[r] = "await"
    /\ res \in AwaitedReturns(r)
    /\ LET log == [calls[r] EXCEPT ![Len(calls[r])] =
                      Call(PARSERS[idx[r]], "returned", res, "")]
       IN  IF HasMedia(res)
           THEN /\ pc' = [pc EXCEPT ![r] = "done"]
                /\ response' = [response EXCEPT ![r] = SuccessResponse(res)]
                /\ calls' = [calls EXCEPT ![r] = log]
                /\ UNCHANGED <<idx, last_error, probes>>
           ELSE Continue(r, url[r], idx[r] + 1, ErrNoMedia, log)
    /\ UNCHANGED url

\* a handler for ValueError only
Catches_ValueErrorOnly(cls) == IsSubclass(cls, "ValueError")

\* except Exception as e
Catches(cls) == IsSubclass(cls, "Exception")

\* the awaited parse raises the exception e
ParseRaises(r, e) ==
    /\ pc[r] = "await"
    /\ LET p == PARSERS[idx[r]]
           log == [calls[r] EXCEPT ![Len(calls[r])] = Call(p, "raised", NoResult, e.msg)]
       IN  IF Catches(e.cls)
           THEN Continue(r, url[r], idx[r] + 1, RaiseDiagnostic(p, e.msg), log)
           ELSE \* the exception leaves parse_link
                /\ pc' = [pc EXCEPT ![r] = "crashed"]
                /\ calls' = [calls EXCEPT ![r] = log]
                /\ UNCHANGED <<idx, last_error, probes, response>>
    /\ UNCHANGED url

\* the response is handed to the HTTP shell and the call's locals are gone
Respond(r) ==
    /\ pc[r] \in {"done", "crashed"}
    /\ pc' = [pc EXCEPT ![r] = "idle"]
    /\ url' = [url EXCEPT ![r] = ""]
    /\ idx' = [idx EXCEPT ![r] = 1]
    /\ last_error' = [last_error EXCEPT ![r] = ""]
    /\ calls' = [calls EXCEPT ![r] = <<>>]
    /\ probes' = [probes EXCEPT ![r] = <<>>]
    /\ response' = [response EXCEPT ![r] = NoResponse]

ChainInit ==
    /\ pc = [r \in Reqs |-> "idle"]
    /\ url = [r \in Reqs |-> ""]
    /\ idx = [r \in Reqs |-> 1]
    /\ last_error = [r \in Reqs |-> ""]
    /\ calls = [r \in Reqs |-> <<>>]
    /\ probes = [r \in Reqs |-> <<>>]
    /\ response = [r \in Reqs |-> NoResponse]

Init == ChainInit /\ AggInit /\ BrowserInit /\ NormInit /\ DouyinInit

\* one request at a time
Next ==
    \/ \E raw \in RawInputs : Receive(1, raw) /\ UNCHANGED <<aggVars, browserVars, normVars, douyinVars>>
    \/ \E res \in AwaitedReturns(1) :
           ParseReturns(1, res) /\ UNCHANGED <<aggVars, browserVars, normVars, douyinVars>>
    \/ \E e \in Exceptions : ParseRaises(1, e) /\ UNCHANGED <<aggVars, browserVars, normVars, douyinVars>>
    \/ Respond(1) /\ UNCHANGED <<aggVars, browserVars, normVars, douyinVars>>

Spec == Init /\ [][Next]_vars

\* the aggregator's parse on its own
NextAgg ==
    \/ \E u \in AggUrls : AggStart(u) /\ UNCHANGED <<chainVars, browserVars, normVars, douyinVars>>
    \/ \E status \in ApiStatuses, data \in ApiBodies(APIS[aggIdx].parse) :
           ApiResponds(status, data) /\ UNCHANGED <<chainVars, browserVars, normVars, douyinVars>>
    \/ \E e \in ApiExceptions : ApiRaises(e) /\ UNCHANGED <<chainVars, browserVars, normVars, douyinVars>>
    \/ AggDone /\ UNCHANGED <<chainVars, browserVars, normVars, douyinVars>>

SpecAgg == Init /\ [][NextAgg]_vars

\* concurrent calls of BrowserParser.parse on the shared browser
NextBrowser ==
    \/ \E t \in Tasks, u \in BrowserUrls : BParseStart(t, u) /\ UNCHANGED <<chainVars, aggVars, normVars, douyinVars>>
    \/ \E t \in Tasks :
           /\ \/ LockGranted(t)
              \/ PlaywrightStarted(t)
              \/ LaunchDone(t)
              \/ NewContextDone(t)
              \/ AddCookiesDone(t)
              \/ NewPageDone(t)
              \/ GotoDone(t)
              \/ SettleDone(t)
              \/ ExtractDone(t)
              \/ CloseDone(t)
              \/ AwaitFails(t)
           /\ UNCHANGED <<chainVars, aggVars, normVars, douyinVars>>
    \/ \E b \in connected : Disconnect(b) /\ UNCHANGED <<chainVars, aggVars, normVars, douyinVars>>

\* the process starts with some cookies.json on disk
InitBrowser ==
    /\ ChainInit /\ AggInit /\ NormInit /\ DouyinInit
    /\ BrowserIdle /\ cookieFile \in CookieFiles

SpecBrowser == InitBrowser /\ [][NextBrowser]_vars

\* the functions without shared state, each on its own
NextNorm ==
    \/ NormPearktrue /\ UNCHANGED <<chainVars, aggVars, browserVars, douyinVars>>
    \/ NormGenericV1 /\ UNCHANGED <<chainVars, aggVars, browserVars, douyinVars>>
    \/ NormDouyinWtf /\ UNCHANGED <<chainVars, aggVars, browserVars, douyinVars>>
    \/ NormDouyinDetail /\ UNCHANGED <<chainVars, aggVars, browserVars, douyinVars>>
    \/ NormKuaishouState /\ UNCHANGED <<chainVars, aggVars, browserVars, douyinVars>>
    \/ NormXhsState /\ UNCHANGED <<chainVars, aggVars, browserVars, douyinVars>>
    \/ NormBrowserXhsState /\ UNCHANGED <<chainVars, aggVars, browserVars, douyinVars>>
    \/ NormBrowserXhsDom /\ UNCHANGED <<chainVars, aggVars, browserVars, douyinVars>>
    \/ NormBrowserDouyin /\ UNCHANGED <<chainVars, aggVars, browserVars, douyinVars>>
    \/ NormBrowserKuaishou /\ UNCHANGED <<chainVars, aggVars, browserVars, douyinVars>>
    \/ NormDeepFind /\ UNCHANGED <<chainVars, aggVars, browserVars, douyinVars>>
    \/ NormFindNote /\ UNCHANGED <<chainVars, aggVars, browserVars, douyinVars>>
    \/ NormFindPhoto /\ UNCHANGED <<chainVars, aggVars, browserVars, douyinVars>>
    \/ NormAggDetect /\ UNCHANGED <<chainVars, aggVars, browserVars, douyinVars>>
    \/ NormBrowserDetect /\ UNCHANGED <<chainVars, aggVars, browserVars, douyinVars>>
    \/ NormDouyinParse /\ UNCHANGED <<chainVars, aggVars, browserVars, douyinVars>>
    \/ NormForget /\ UNCHANGED <<chainVars, aggVars, browserVars, douyinVars>>

SpecNorm == Init /\ [][NextNorm]_vars

\* the request bodies of the concurrent requests
ConcurrentInputs == {"https://douyin.com/x", "kuaishou.com"}

\* the exceptions their strategies raise
ShortExceptions == {e \in Exceptions : Len(e.msg) <= MsgLimit}

\* parse_link calls in flight together, their steps interleaved at the awaits
NextConcurrent ==
    \/ \E r \in Reqs, raw \in ConcurrentInputs :
           Receive(r, raw) /\ UNCHANGED <<aggVars, browserVars, normVars, douyinVars>>
    \/ \E r \in Reqs : \E res \in AwaitedReturns(r) :
           ParseReturns(r, res) /\ UNCHANGED <<aggVars, browserVars, normVars, douyinVars>>
    \/ \E r \in Reqs, e \in ShortExceptions :
           ParseRaises(r, e) /\ UNCHANGED <<aggVars, browserVars, normVars, douyinVars>>
    \/ \E r \in Reqs : Respond(r) /\ UNCHANGED <<aggVars, browserVars, normVars, douyinVars>>

SpecConcurrent == Init /\ [][NextConcurrent]_vars

\* one call of DouyinParser.parse and the answers of the network
NextDouyin ==
    \/ \E u \in DouyinLinks : DParseStart(u) /\ UNCHANGED <<chainVars, aggVars, browserVars, normVars>>
    \/ \E r \in RedirectAnswers : DShareReturns(r) /\ UNCHANGED <<chainVars, aggVars, browserVars, normVars>>
    \/ \E r \in RedirectAnswers : DShareRaises(r) /\ UNCHANGED <<chainVars, aggVars, browserVars, normVars>>
    \/ \E d \in DetailAnswers : DDetailAnswers(d) /\ UNCHANGED <<chainVars, aggVars, browserVars, normVars>>

SpecDouyin == Init /\ [][NextDouyin]_vars

-----------------------------------------------------------------------------
(* Properties of the fallback chain *)

\* a result carries media: a non-empty video_url or a non-empty images list
ValidMedia(res) == (res.video_url # None /\ res.video_url # "") \/ res.images # <<>>

\* position of parser p in the priority order
Rank(p) == CHOOSE i \in 1..Len(PARSERS) : PARSERS[i] = p

\* the parsers whose parse was invoked for request r, in order of invocation
Invoked(r) == [k \in 1..Len(calls[r]) |-> calls[r][k].parser]

\* the applicable parsers among the first n of the priority order
RECURSIVE ApplicableUpTo(_, _)
ApplicableUpTo(u, n) ==
    IF n = 0 THEN <<>>
    ELSE IF CanHandle(PARSERS[n], u)
         THEN Append(ApplicableUpTo(u, n - 1), PARSERS[n])
         ELSE ApplicableUpTo(u, n - 1)

\* the response carries exactly the fields of the result res
ResponseIs(resp, res) ==
    /\ resp.success
    /\ resp.title = res.title /\ resp.cover = res.cover
    /\ resp.video_url = res.video_url /\ resp.images = res.images
    /\ resp.platform = res.platform /\ resp.type = res.type
    /\ resp.error = None

\* C1: when a strategy returns a result with a non-empty video_url or
\* non-empty images, it is the last strategy invoked, the strategies invoked
\* are exactly the applicable ones up to its position, and the response is
\* its result, field for field.
C1_ShortCircuit ==
    \A r \in Reqs : \A k \in 1..Len(calls[r]) :
        (calls[r][k].out = "returned" /\ ValidMedia(calls[r][k].result)) =>
            /\ k = Len(calls[r])
            /\ pc[r] = "done"
            /\ Invoked(r) = ApplicableUpTo(url[r], Rank(calls[r][k].parser))
            /\ ResponseIs(response[r], calls[r][k].result)

\* an earlier strategy failed, the second one won, and an applicable native
\* strategy after it was never invoked
C1_Witness ==
    \E r \in Reqs :
        /\ pc[r] = "done" /\ response[r].success
        /\ Len(calls[r]) = 2
        /\ calls[r][1].out = "returned"
        /\ CanHandle("DouyinParser", url[r])

\* C2: a request whose cleaned URL does not start with "http" ends with the
\* invalid-link failure, and neither can_handle nor parse of any strategy is
\* invoked for it.
C2_InvalidInput ==
    \A r \in Reqs :
        (pc[r] # "idle" /\ ~StartsWith(url[r], "http")) =>
            /\ pc[r] = "done"
            /\ response[r] = FailureResponse(ErrInvalidLink)
            /\ calls[r] = <<>>
            /\ probes[r] = <<>>

\* a share text that names a supported platform but has no http prefix
C2_Witness ==
    \E r \in Reqs :
        /\ pc[r] = "done"
        /\ ~StartsWith(url[r], "http")
        /\ Contains(url[r], "douyin.com")
        /\ response[r].error = ErrInvalidLink

\* the diagnostic of the call c of the log
DiagnosticOf(c) ==
    IF c.out = "returned" THEN ErrNoMedia
    ELSE c.parser \o ": " \o
         (IF Len(c.msg) > MsgLimit THEN SubSeq(c.msg, 1, MsgLimit) ELSE c.msg)

\* C3: when a request passes the guard and no strategy yields valid media,
\* the response is the failure whose error is the diagnostic of the last
\* strategy attempted; the "platform not supported" default is the error
\* only if no strategy was applicable.
C3_LastDiagnostic ==
    \A r \in Reqs :
        (/\ pc[r] = "done"
         /\ StartsWith(url[r], "http")
         /\ \A k \in 1..Len(calls[r]) : ~ValidMedia(calls[r][k].result)) =>
            /\ ~response[r].success
            /\ calls[r] # <<>> =>
                   response[r] = FailureResponse(DiagnosticOf(calls[r][Len(calls[r])]))
            /\ calls[r] = <<>> => response[r] = FailureResponse(ErrUnsupported)
            /\ response[r].error = ErrUnsupported =>
                   \A i \in 1..Len(PARSERS) : ~CanHandle(PARSERS[i], url[r])

\* the first strategy returned no media, the last one raised a message
\* longer than the diagnostic keeps, and the chain failed
C3_Witness ==
    \E r \in Reqs :
        /\ pc[r] = "done" /\ ~response[r].success
        /\ Len(calls[r]) >= 2
        /\ calls[r][1].out = "returned"
        /\ calls[r][Len(calls[r])].out = "raised"
        /\ Len(calls[r][Len(calls[r])].msg) > MsgLimit

\* the parsers after position i of the priority order that can handle u
LaterApplicable(u, i) == {j \in (i + 1)..Len(PARSERS) : CanHandle(PARSERS[j], u)}

\* C4: no exception of a strategy leaves parse_link: a call that raised is
\* followed by the next applicable strategy or, when there is none, by the
\* failure response carrying its diagnostic; a finished request has exactly
\* a success response without error or a failure response with an error.
C4_NoFaultEscapes ==
    \A r \in Reqs :
        /\ pc[r] # "crashed"
        /\ pc[r] = "done" =>
               IF response[r].success THEN response[r].error = None
               ELSE response[r].error # None /\ response[r].error # ""
        /\ \A k \in 1..Len(calls[r]) :
               calls[r][k].out = "raised" =>
                   LET later == LaterApplicable(url[r], Rank(calls[r][k].parser))
                   IN  IF later = {}
                       THEN /\ k = Len(calls[r])
                            /\ pc[r] = "done"
                            /\ response[r].error = DiagnosticOf(calls[r][k])
                       ELSE /\ k < Len(calls[r])
                            /\ Rank(calls[r][k + 1].parser) =
                                   CHOOSE j \in later : \A i \in later : j <= i

\* a strategy raised, the chain went on and a later strategy succeeded
C4_Witness ==
    \E r \in Reqs :
        /\ pc[r] = "done" /\ response[r].success
        /\ Len(calls[r]) >= 2
        /\ calls[r][1].out = "raised"

\* the fixed priority: browser scrape, aggregator, then the native parsers
Priority(p) ==
    CASE p = "BrowserParser" -> 1
      [] p = "AggregatorParser" -> 2
      [] p = "DouyinParser" -> 3
      [] p = "KuaishouParser" -> 4
      [] p = "XiaohongshuParser" -> 5

\* C8: the strategies are invoked in the fixed priority order, only
\* applicable ones are invoked and every applicable one of higher priority
\* was invoked before; at most one parse is in progress, it is the last one
\* started, and every parse before it finished without valid media.
C8_OneAtATime ==
    \A r \in Reqs :
        /\ \A k \in 1..Len(calls[r]) :
               /\ CanHandle(calls[r][k].parser, url[r])
               /\ k > 1 => Priority(calls[r][k - 1].parser) < Priority(calls[r][k].parser)
               /\ k < Len(calls[r]) =>
                      /\ calls[r][k].out \in {"returned", "raised"}
                      /\ ~ValidMedia(calls[r][k].result)
        /\ \A p \in {"BrowserParser", "AggregatorParser", "DouyinParser",
                     "KuaishouParser", "XiaohongshuParser"} :
               (/\ calls[r] # <<>>
                /\ Priority(p) < Priority(calls[r][Len(calls[r])].parser)
                /\ CanHandle(p, url[r])) =>
                   \E k \in 1..Len(calls[r]) : calls[r][k].parser = p
        /\ pc[r] = "await" <=>
               (calls[r] # <<>> /\ calls[r][Len(calls[r])].out = "pending")

\* the third strategy of a Kuaishou link is running: the Douyin parser was
\* skipped, the browser and the aggregator have finished
C8_Witness ==
    \E r \in Reqs :
        /\ Len(calls[r]) = 3
        /\ calls[r][3].parser = "KuaishouParser"
        /\ calls[r][3].out = "pending"
        /\ ~CanHandle("DouyinParser", url[r])

-----------------------------------------------------------------------------
(* Properties of the aggregator's sub-chain *)

\* the endpoint call t yielded validated media
YieldedMedia(t) == t.out.kind = "dict" /\ ValidMedia(t.out.res)

\* C9: the endpoints are tried in APIS order; parse returns the result of
\* the first endpoint that yields a non-empty video_url or non-empty images;
\* an endpoint that answers non-200, raises or parses to a record without
\* media is followed by the next endpoint; parse raises only when all
\* endpoints are exhausted.
C9_SubChain ==
    /\ \A k \in 1..Len(aggTried) : aggTried[k].api = APIS[k].name
    /\ aggPc = "returned" =>
           /\ aggOut = aggTried[Len(aggTried)].out
           /\ YieldedMedia(aggTried[Len(aggTried)])
    /\ \A k \in 1..Len(aggTried) :
           (~YieldedMedia(aggTried[k]) /\ k < Len(APIS)) =>
               (k < Len(aggTried) \/ aggPc = "await")
    /\ aggPc = "raised" =>
           /\ Len(aggTried) = Len(APIS)
           /\ \A k \in 1..Len(aggTried) : ~YieldedMedia(aggTried[k])

-----------------------------------------------------------------------------
(* Properties of the shared browser *)

\* C6: once new_context has returned a context to a call of
\* BrowserParser.parse, the context is closed before the call returns or
\* raises, whichever step failed: no finished call leaves its context open.
C6_ContextClosed ==
    \A t \in Tasks : bpc[t] \in {"returned", "raised"} => ctx[t] # "open"

\* the tasks that are starting Playwright or launching the browser
Launching == {t \in Tasks : bpc[t] \in {"starting", "launching"}}

\* C7: at most one launch is in progress at a time and it is made by the
\* holder of the lock; at most one browser process is connected; a caller
\* that waited on the lock and did not launch returns a handle that another
\* caller launched.
C7_SingleLaunch ==
    /\ Cardinality(Launching) <= 1
    /\ \A t \in Launching : lockHolder = t
    /\ Cardinality(connected) <= 1
    /\ \A t \in Tasks :
           (waited[t] /\ got[t] # 0 /\ launched[t] = 0) =>
               \E o \in Tasks \ {t} : launched[o] = got[t]

\* a caller waited on the lock while the holder launched, and returned the
\* holder's handle without launching
C7_Witness ==
    \E t \in Tasks :
        /\ waited[t] /\ launched[t] = 0
        /\ got[t] # 0 /\ got[t] = browser
        /\ \E o \in Tasks \ {t} : launched[o] = got[t]

\* task t is before the body of "async with _lock" and enters it in this
\* step
EntersLocked(t) ==
    /\ bpc[t] \in {"idle", "wait_lock"}
    /\ bpc'[t] \notin {"idle", "wait_lock"}

\* _get_browser returns to task t in this step
GetBrowserReturns(t) == bpc[t] # "new_context" /\ bpc'[t] = "new_context"

\* C20: a call of _get_browser made while the shared handle is connected
\* returns that handle without launching; a call made when there is no
\* handle or the handle is disconnected launches; a launch is made in no
\* other case, and every handle returned is the shared one and connected.
C20_ReuseOrRelaunch ==
    [][\A t \in Tasks :
           /\ (EntersLocked(t) /\ browser \in connected) =>
                  /\ GetBrowserReturns(t)
                  /\ got'[t] = browser
                  /\ browser' = browser
                  /\ launches' = launches
           /\ (EntersLocked(t) /\ browser \notin connected) => bpc'[t] = "starting"
           /\ launches' # launches => browser \notin connected
           /\ GetBrowserReturns(t) => got'[t] = browser' /\ got'[t] \in connected'
      ]_vars

\* the first handle has disconnected, and a later call has launched the
\* second and returned it
C20_Witness ==
    \E t \in Tasks :
        /\ 1 \notin connected
        /\ launched[t] = 2 /\ got[t] = 2
        /\ browser = 2 /\ 2 \in connected
        /\ \E o \in Tasks \ {t} : launched[o] = 1

-----------------------------------------------------------------------------
(* Properties of the normalizers *)

\* exactly one of video_url and images is populated, the one type names
MediaResultInvariant(res) ==
    \/ res.type = "video" /\ Truthy(res.video_url) /\ res.images = <<>>
    \/ res.type = "images" /\ res.images # <<>> /\ ~Truthy(res.video_url)

\* C5: every dict a normalizer of a strategy returns has exactly one of
\* video_url and images populated, and it is the one its type names.
C5_MediaResult ==
    nOut.kind = "dict" => MediaResultInvariant(nOut.res)

\* C10: in every dict a normalizer of a strategy returns, no entry of
\* images is the empty string.
C10_NoEmptyImage ==
    nOut.kind = "dict" =>
        \A i \in 1..Len(nOut.res.images) : nOut.res.images[i] # ""

\* the functions that project a payload to a result
Normalizers ==
    {"_parse_pearktrue", "_parse_generic_v1", "_parse_douyin_wtf",
     "DouyinParser._fetch_detail", "KuaishouParser._extract_from_state",
     "XiaohongshuParser._extract_from_state", "_extract_xhs_from_state",
     "_scrape_xhs_dom", "_parse_douyin", "_parse_kuaishou"}

\* the object a page script or an endpoint hands to the projection
PayloadObject(fn, in) ==
    CASE fn \in {"_parse_pearktrue", "_parse_generic_v1", "_parse_douyin_wtf"} ->
             Get(in, "data", <<>>)
      [] fn = "DouyinParser._fetch_detail" ->
             FirstOr(Get(in, "item_list", <<>>), <<>>)
      [] fn \in {"_parse_douyin", "_parse_kuaishou"} ->
             Get(in, "state", Get(in, "dom", <<>>))
      [] OTHER -> in

\* the image list of the payload under the keys the normalizer reads
PayloadImageList(fn, in) ==
    LET d == PayloadObject(fn, in)
    IN  Get(d, "images", Get(d, "pics", Get(d, "ext_photo_list",
            Get(d, "imageList", <<>>))))

\* the non-empty image URLs the payload of a normalizer offers, in order
DerivableImages(fn, in) ==
    LET raw == PayloadImageList(fn, in)
    IN  CASE fn = "_parse_pearktrue" -> NonEmpty(PearktrueClean(raw))
          [] fn = "_parse_generic_v1" -> NonEmpty(GenericClean(raw))
          [] fn = "_parse_douyin_wtf" -> NonEmpty(WtfImages(raw))
          [] fn = "DouyinParser._fetch_detail" -> NonEmpty(BrowserDouyinImages(raw))
          [] fn = "KuaishouParser._extract_from_state" -> NonEmpty(KsImages(raw))
          [] fn = "XiaohongshuParser._extract_from_state" -> NonEmpty(XhsImages(raw))
          [] fn = "_extract_xhs_from_state" -> NonEmpty(XhsBrowserImages(raw))
          [] fn = "_scrape_xhs_dom" -> NonEmpty(raw)
          [] fn = "_parse_douyin" ->
                 IF "state" \in DOMAIN in THEN NonEmpty(BrowserDouyinImages(raw))
                 ELSE NonEmpty(raw)
          [] fn = "_parse_kuaishou" ->
                 IF "state" \in DOMAIN in THEN NonEmpty(BrowserKsImages(raw))
                 ELSE NonEmpty(raw)
          [] OTHER -> <<>>

\* the video URL the payload of a normalizer offers, "" when it has none
DerivableVideo(fn, in) ==
    LET d == PayloadObject(fn, in)
    IN  CASE fn \in {"_parse_pearktrue", "_parse_generic_v1"} ->
                 Get(d, "url", Get(d, "work_url", ""))
          [] fn \in {"_parse_douyin_wtf", "DouyinParser._fetch_detail"} ->
                 DouyinVideoUrl(Get(d, "video", <<>>))
          [] fn = "KuaishouParser._extract_from_state" ->
                 Get(d, "srcNoMark", Get(d, "photoUrl", ""))
          [] fn = "XiaohongshuParser._extract_from_state" ->
                 XhsVideoUrl(Get(d, "video", <<>>), TRUE)
          [] fn = "_extract_xhs_from_state" ->
                 XhsVideoUrl(Get(d, "video", <<>>), FALSE)
          [] fn = "_parse_douyin" /\ "state" \in DOMAIN in ->
                 DouyinVideoUrl(Get(d, "video", <<>>))
          [] fn = "_parse_kuaishou" /\ "state" \in DOMAIN in ->
                 Get(d, "srcNoMark", Get(d, "photoUrl", ""))
          [] fn \in {"_scrape_xhs_dom", "_parse_douyin", "_parse_kuaishou"} ->
                 OrElse(Get(d, "videoUrl", None), "")
          [] OTHER -> ""

\* C11: every normalizer classifies the content images when the payload
\* offers a non-empty normalized image list (also when it offers a video
\* URL as well), else video when it offers a video URL, and else rejects it.
C11_TypeDiscrimination ==
    nFn \in Normalizers =>
        LET images == DerivableImages(nFn, nIn)
            video == DerivableVideo(nFn, nIn)
        IN  IF images # <<>>
            THEN nOut.kind = "dict" /\ nOut.res.type = "images"
            ELSE IF Truthy(video)
            THEN nOut.kind = "dict" /\ nOut.res.type = "video"
            ELSE nOut.kind # "dict"

\* the address play_addr.url_list[0] of a Douyin video object, "" without one
PlayAddr(video_data) ==
    FirstOr(Get(Get(video_data, "play_addr", <<>>), "url_list", <<>>), "")

\* the video address as the payload of a Douyin path carries it, before any
\* rewrite: play_addr.url_list[0], else the one of the bit_rate entry of
\* highest bit rate, and the videoUrl of the DOM when the page has no state
SurfacedVideo(fn, in) ==
    LET d == PayloadObject(fn, in)
        video_data == Get(d, "video", <<>>)
        bit_rates == Get(video_data, "bit_rate", <<>>)
    IN  IF fn = "_parse_douyin" /\ "state" \notin DOMAIN in
        THEN Get(d, "videoUrl", None)
        ELSE IF PlayAddr(video_data) # "" \/ bit_rates = <<>>
        THEN PlayAddr(video_data)
        ELSE PlayAddr(MaxByBitRate(bit_rates))

DouyinPaths == {"DouyinParser._fetch_detail", "_parse_douyin_wtf", "_parse_douyin"}

\* C12: the video_url a Douyin path returns (the native detail path with
\* its bit_rate fallback, the douyin.wtf parser, the SSR state and the DOM
\* fallback of the browser) is the address of the payload with "playwm"
\* replaced by "play".
C12_RewriteOnEveryPath ==
    (nFn \in DouyinPaths /\ nOut.kind = "dict" /\ Truthy(nOut.res.video_url)) =>
        nOut.res.video_url = StripWatermark(SurfacedVideo(nFn, nIn))

\* the positions of u at which "playwm" starts
Marks(u) == {i \in 1..Len(u) : StartsWith(Suffix(u, i - 1), "playwm")}

\* position k of u is the "w" or the "m" of a "playwm"
InWm(u, k) == \E i \in Marks(u) : k \in {i + 4, i + 5}

\* the number of "playwm" of u that end before position k
MarksBefore(u, k) == Cardinality({i \in Marks(u) : i + 5 < k})

\* r is u without the "wm" of each "playwm", every other character kept
\* where it was
Rewritten(u, r) ==
    /\ Len(r) = Len(u) - 2 * Cardinality(Marks(u))
    /\ \A k \in 1..Len(u) :
           ~InWm(u, k) => CharAt(r, k - 2 * MarksBefore(u, k)) = CharAt(u, k)

\* a path that rewrites has returned the video whose address holds "playwm"
RewroteMarked ==
    /\ nFn \in DouyinPaths
    /\ nFn = "_parse_douyin" => "state" \in DOMAIN nIn
    /\ nOut.kind = "dict"
    /\ nOut.res.type = "video"
    /\ Contains(SurfacedVideo(nFn, nIn), "playwm")

\* C13 (as amended): the rewritten URL has "play" where each "playwm" was
\* and every other character of the original in its place; it contains no
\* "playwm" unless a "playwm" of the original was followed by "wm".
C13_Rewrite ==
    RewroteMarked =>
        LET u == SurfacedVideo(nFn, nIn)
            r == nOut.res.video_url
        IN  /\ Rewritten(u, r)
            /\ ~Contains(u, "playwmwm") => ~Contains(r, "playwm")

C13_Witness ==
    /\ RewroteMarked
    /\ Cardinality(Marks(SurfacedVideo(nFn, nIn))) = 2
    /\ nOut.res.video_url = "play/vplay"

\* C13 (as stated): the rewritten URL has "play" at the position of "playwm",
\* is otherwise identical to the original, and contains no "playwm".
C13_NoMarkLeft ==
    RewroteMarked =>
        LET u == SurfacedVideo(nFn, nIn)
            r == nOut.res.video_url
            i == CHOOSE m \in Marks(u) : \A n \in Marks(u) : m <= n
        IN  /\ r = Prefix(u, i - 1) \o "play" \o Suffix(u, i + 5)
            /\ ~Contains(r, "playwm")

\* the depth and the list length a search is to stay within: its own
\* where the code configures one, the largest the searches are configured
\* with where it does not
DepthBound(fn, in) ==
    IF fn = "_deep_find" THEN in.max_depth ELSE FindNoteDepth

ItemBound(fn) ==
    IF fn = "_deep_find" THEN DeepFindItems ELSE FindNoteItems

\* C14: no search (_deep_find, _find_note, _find_photo) looks at a node
\* below its depth bound or at a list element past its element bound,
\* however deep or wide the tree is.
C14_BoundedSearch ==
    nOut.kind = "search" =>
        /\ nOut.deepest <= DepthBound(nFn, nIn)
        /\ nOut.widest <= ItemBound(nFn)

\* the bit_rate list of the payload of a Douyin path
VariantsOf(fn, in) ==
    Get(Get(PayloadObject(fn, in), "video", <<>>), "bit_rate", <<>>)

\* variant i has the highest bit rate of vs and is the first that has it;
\* a variant without bit_rate counts as 0
FirstHighest(vs, i) ==
    /\ \A j \in 1..Len(vs) : Get(vs[j], "bit_rate", 0) <= Get(vs[i], "bit_rate", 0)
    /\ \A j \in 1..(i - 1) : Get(vs[j], "bit_rate", 0) < Get(vs[i], "bit_rate", 0)

\* the video_url of the result is the rewritten address of variant i
TakenFrom(vs, i) ==
    nOut.res.video_url = OrElse(StripWatermark(PlayAddr(vs[i])), None)

\* the native detail path or douyin.wtf has returned a video whose payload
\* carries variants
ReturnedWithVariants ==
    /\ nFn \in {"DouyinParser._fetch_detail", "_parse_douyin_wtf"}
    /\ nOut.kind = "dict"
    /\ nOut.res.type = "video"
    /\ VariantsOf(nFn, nIn) # <<>>

\* C15 (as amended): when the video object of a payload has no address of
\* its own in play_addr.url_list and carries a list of {bit_rate, play_addr}
\* variants, the video URL is taken from the variant of highest bit_rate,
\* the first of them in list order.
C15_BitrateFallback ==
    (ReturnedWithVariants
     /\ PlayAddr(Get(PayloadObject(nFn, nIn), "video", <<>>)) = "") =>
        \E i \in 1..Len(VariantsOf(nFn, nIn)) :
            /\ FirstHighest(VariantsOf(nFn, nIn), i)
            /\ TakenFrom(VariantsOf(nFn, nIn), i)

\* the bit rates 240, 720, 480: the variant of 720 is taken
C15_Witness ==
    /\ ReturnedWithVariants
    /\ PlayAddr(Get(PayloadObject(nFn, nIn), "video", <<>>)) = ""
    /\ Len(VariantsOf(nFn, nIn)) = 3
    /\ Get(VariantsOf(nFn, nIn)[1], "bit_rate", 0) = 240
    /\ Get(VariantsOf(nFn, nIn)[2], "bit_rate", 0) = 720
    /\ Get(VariantsOf(nFn, nIn)[3], "bit_rate", 0) = 480
    /\ nOut.res.video_url = "http://v/play/720"

\* C15 (as stated): when a payload carries a list of {bit_rate, play_addr}
\* variants, the video URL is taken from the variant of highest bit_rate,
\* the first of them in list order.
C15_BitrateSelection ==
    ReturnedWithVariants =>
        \E i \in 1..Len(VariantsOf(nFn, nIn)) :
            /\ FirstHighest(VariantsOf(nFn, nIn), i)
            /\ TakenFrom(VariantsOf(nFn, nIn), i)

\* the payload names a cover under one of the keys the normalizers read
CoverGiven(fn, in) ==
    LET d == PayloadObject(fn, in)
    IN  \/ DOMAIN d \cap {"cover", "work_cover", "thumbnail", "coverUrl",
                          "poster", "webpCoverUrl"} # {}
        \/ "cover" \in DOMAIN Get(d, "video", <<>>)

\* C16: whenever the payload names no cover and the normalized image list of
\* the result is non-empty, the cover of the result is the first image of
\* that list.
C16_CoverFallback ==
    (/\ nOut.kind = "dict"
     /\ ~CoverGiven(nFn, nIn)
     /\ NonEmpty(nOut.res.images) # <<>>) =>
        nOut.res.cover = NonEmpty(nOut.res.images)[1]

AggregatorParsers == {"_parse_pearktrue", "_parse_generic_v1", "_parse_douyin_wtf"}

\* the envelope of the response carries a code the parser accepts
Accepted(in) ==
    Get(in, "code", "") = "200" \/ Get(in, "status", "") \in GenericAccepted

\* the entry is a plain string or an object with a url key
UrlEntry(e) == e.kind = "str" \/ "url" \in DOMAIN e.obj

\* the URLs of such entries that are not empty, in the order of the list
RECURSIVE UrlsOf(_)
UrlsOf(raw) ==
    IF raw = <<>> THEN <<>>
    ELSE LET e == Head(raw)
             u == IF e.kind = "str" THEN e.str ELSE e.obj.url
         IN  (IF u = "" THEN <<>> ELSE <<u>>) \o UrlsOf(Tail(raw))

\* C17: an accepted aggregator response whose images are plain strings and
\* objects with a url key, some of them with a URL, is normalized to type
\* images with the non-empty URLs in their order, and with the first of
\* them as cover when the response names no cover.
C17_AggregatorImages ==
    LET raw == PayloadImageList(nFn, nIn)
    IN  (/\ nFn \in AggregatorParsers
         /\ Accepted(nIn)
         /\ \A i \in 1..Len(raw) : UrlEntry(raw[i])
         /\ UrlsOf(raw) # <<>>) =>
            /\ nOut.kind = "dict"
            /\ nOut.res.type = "images"
            /\ nOut.res.images = UrlsOf(raw)
            /\ ~CoverGiven(nFn, nIn) => nOut.res.cover = UrlsOf(raw)[1]

\* the closed enumeration of platform identifiers
PlatformId ==
    {"douyin", "kuaishou", "xiaohongshu", "bilibili", "weibo", "tiktok", "unknown"}

\* the table of the detector that ran
DetectorMap ==
    IF nFn = "aggregator.detect_platform" THEN AggPlatformMap ELSE BrowserPlatformMap

\* C18: detect maps a URL that contains a registered domain of a platform
\* to that platform, whatever else the URL contains, and a URL without any
\* registered domain to unknown; no two platforms share a domain; the
\* identifier returned is one of douyin, kuaishou, xiaohongshu, bilibili,
\* weibo, tiktok, unknown.
C18_DetectStable ==
    nOut.kind = "platform" =>
        LET map == DetectorMap
            names(i) == \E d \in map[i].domains : Contains(nIn, d)
        IN  /\ \A i \in 1..Len(map) : names(i) => nOut.platform = map[i].platform
            /\ (\A i \in 1..Len(map) : ~names(i)) => nOut.platform = "unknown"
            /\ \A i, j \in 1..Len(map) :
                   i # j => map[i].domains \cap map[j].domains = {}
            /\ nOut.platform \in PlatformId

\* u holds /video/ before a digit, or modal_id= before a digit
NamesItem(u) ==
    \E i \in 1..Len(u) :
        \/ SubSeq(u, i, Min(i + 6, Len(u))) = "/video/" /\ At(u, i + 7) \in Digit
        \/ SubSeq(u, i, Min(i + 8, Len(u))) = "modal_id=" /\ At(u, i + 9) \in Digit

\* DouyinParser.parse was given a share link without an id, and following
\* it has ended at a URL with one
Redirected ==
    /\ nFn = "DouyinParser.parse"
    /\ ~NamesItem(nIn.url)
    /\ nIn.redirect.kind = "ok"
    /\ NamesItem(nIn.redirect.url)

\* and the detail endpoint has answered with an item without images
ResolvedAfterRedirect ==
    /\ Redirected
    /\ nIn.detail.kind = "ok"
    /\ nIn.detail.status = 200
    /\ nIn.detail.data.item_list # <<>>
    /\ Get(nIn.detail.data.item_list[1], "images", <<>>) = <<>>

\* the url_list of play_addr of the item the detail endpoint has returned
DetailUrlList == nIn.detail.data.item_list[1].video.play_addr.url_list

\* the result is a video without "playwm" and without images
CleanVideo ==
    /\ nOut.kind = "dict"
    /\ nOut.res.type = "video"
    /\ Contains(nOut.res.video_url, "play")
    /\ ~Contains(nOut.res.video_url, "playwm")
    /\ nOut.res.images = <<>>

\* C19 (as amended): when a Douyin share link resolves after a redirect to
\* an item id and the detail endpoint returns an item without images whose
\* video.play_addr.url_list starts with a URL that contains "playwm" but
\* not "playwmwm", DouyinParser.parse returns type video, a video_url that
\* contains "play" but not "playwm", and no images.
C19_DouyinEndToEnd ==
    /\ Redirected => nIn.detail.kind # "none"
    /\ (/\ ResolvedAfterRedirect
        /\ DetailUrlList # <<>>
        /\ Contains(DetailUrlList[1], "playwm")
        /\ ~Contains(DetailUrlList[1], "playwmwm")) => CleanVideo

C19_Witness ==
    /\ ResolvedAfterRedirect
    /\ nIn.redirect.url = "https://www.iesdouyin.com/share/video/123/"
    /\ DetailUrlList = <<"/vplaywm/v">>
    /\ CleanVideo
    /\ nOut.res.video_url = "/vplay/v"

\* C19 (as stated): the same for an item whose video.play_addr.url_list
\* holds a URL that contains "playwm".
C19_AnyMarkedUrl ==
    /\ Redirected => nIn.detail.kind # "none"
    /\ (/\ ResolvedAfterRedirect
        /\ \E i \in 1..Len(DetailUrlList) : Contains(DetailUrlList[i], "playwm")) =>
           CleanVideo

-----------------------------------------------------------------------------
(* Properties of DouyinParser.parse, step by step *)

\* the positions of the requests of one kind in the log
SentTo(to) == {i \in 1..Len(dSent) : dSent[i].to = to}

\* the id the three places hold, in the order share URL, resolved URL, page
FirstIdInOrder ==
    IF ExtractItemId(dUrl) # None THEN ExtractItemId(dUrl)
    ELSE IF dPage.kind # "ok" THEN None
    ELSE IF ExtractItemId(dPage.url) # None THEN ExtractItemId(dPage.url)
    ELSE ExtractFromHtml(dPage.text)

\* C21: DouyinParser.parse seeks the identifier in the share URL first (and
\* then follows no redirect), then in the resolved URL, then in the landing
\* page; the detail endpoint is requested once, last, and only with the
\* identifier obtained that way; when no place holds an identifier parse
\* fails without a request to the detail endpoint.
C21_ResolutionOrder ==
    /\ dpc # "idle" =>
           /\ (SentTo("share") = {}) = (ExtractItemId(dUrl) # None)
           /\ SentTo("share") \subseteq {1}
    /\ dItemId # None => dItemId = FirstIdInOrder
    /\ \A i \in SentTo("detail") :
           /\ i = Len(dSent)
           /\ Truthy(dItemId)
           /\ dSent[i].item_ids = dItemId
    /\ (dpc \in {"raised", "returned"} /\ ~Truthy(FirstIdInOrder)) =>
           /\ SentTo("detail") = {}
           /\ dOut.kind = "raise"
           /\ dPage.kind = "ok" => dOut = RetRaise(ErrNoItemId)
    /\ dOut = RetRaise(ErrNoItemId) => SentTo("detail") = {}

\* the resolved URL and the page both name an item, a different one each, and
\* the detail endpoint was asked after the redirect
C21_Witness ==
    /\ dpc = "returned"
    /\ Len(dSent) = 2 /\ dSent[1].to = "share" /\ dSent[2].to = "detail"
    /\ ExtractItemId(dPage.url) # None
    /\ ExtractFromHtml(dPage.text) # None
    /\ ExtractItemId(dPage.url) # ExtractFromHtml(dPage.text)
    /\ dSent[2].item_ids = ExtractItemId(dPage.url)

\* no identifier anywhere: parse raised and the detail endpoint was never asked
C21_WitnessNoId ==
    /\ dOut = RetRaise(ErrNoItemId)
    /\ dSent = <<Request("share", None)>>

-----------------------------------------------------------------------------
(* Properties of the candidate keys *)

\* the normalizers that read a field under several candidate keys
KeyedNormalizers == {"_parse_pearktrue", "_parse_generic_v1", "_parse_kuaishou"}

\* the candidate keys of each field, in the order the normalizer lists them
CandidateKeys(fn) ==
    CASE fn = "_parse_pearktrue" ->
             [title |-> <<"title", "desc">>,
              cover |-> <<"cover", "thumbnail">>,
              video |-> <<"url", "video", "video_url">>,
              images |-> <<"images", "pics", "image_list">>]
      [] fn = "_parse_generic_v1" ->
             [title |-> <<"title", "work_title", "desc">>,
              cover |-> <<"cover", "work_cover", "thumbnail">>,
              video |-> <<"url", "work_url", "video_url">>,
              images |-> <<"images", "pics", "image_list">>]
      [] OTHER ->
             [title |-> <<"caption", "desc">>,
              cover |-> <<"coverUrl", "poster">>,
              video |-> <<"srcNoMark", "photoUrl">>,
              images |-> <<"ext_photo_list", "images">>]

\* the value under the first of the keys that is present and not empty
FirstNonEmpty(d, keys, empty) ==
    LET I == {i \in 1..Len(keys) : keys[i] \in DOMAIN d /\ d[keys[i]] # empty}
    IN  IF I = {} THEN empty
        ELSE d[keys[CHOOSE i \in I : \A j \in I : i <= j]]

\* a payload object was handed to a normalizer that reads candidate keys
KeyedCall ==
    /\ nFn \in KeyedNormalizers
    /\ nFn = "_parse_kuaishou" => "state" \in DOMAIN nIn
    /\ DOMAIN PayloadObject(nFn, nIn) # {}

\* the first non-empty list among the candidate keys of the image list
CandidateList ==
    FirstNonEmpty(PayloadObject(nFn, nIn), CandidateKeys(nFn).images, <<>>)

\* its images, normalized
CandidateImages ==
    LET raw == CandidateList
    IN  CASE nFn = "_parse_pearktrue" -> NonEmpty(PearktrueClean(raw))
          [] nFn = "_parse_generic_v1" -> NonEmpty(GenericClean(raw))
          [] OTHER -> NonEmpty(BrowserKsImages(raw))

\* C22: title, cover, video URL and image list of a result are each the
\* first present, non-empty value among the field's candidate keys: a key
\* that is present with an empty value is passed over for a later key that
\* holds a value.
C22_OrderedKeyFallback ==
    (KeyedCall /\ nOut.kind = "dict") =>
        LET d == PayloadObject(nFn, nIn)
            keys == CandidateKeys(nFn)
            title == FirstNonEmpty(d, keys.title, "")
            cover == FirstNonEmpty(d, keys.cover, "")
            video == FirstNonEmpty(d, keys.video, "")
        IN  /\ title # "" => nOut.res.title = title
            /\ cover # "" => nOut.res.cover = cover
            /\ (CandidateImages # <<>> /\ video = "") =>
                   nOut.res.images = CandidateImages
            /\ (CandidateList = <<>> /\ video # "") => nOut.res.video_url = video

-----------------------------------------------------------------------------
(* Properties of the title *)

\* C23: every result a normalizer returns has a non-empty title: a payload
\* whose title is absent or empty gets the placeholder of the platform.
C23_NonEmptyTitle ==
    (nFn \in Normalizers \cup {"DouyinParser.parse"} /\ nOut.kind = "dict") =>
        Truthy(nOut.res.title)

-----------------------------------------------------------------------------
(* Properties of concurrent parse_link calls *)

\* the calls of request r that came back without valid media, in order
RECURSIVE Failed(_)
Failed(log) ==
    IF log = <<>> THEN <<>>
    ELSE LET c == log[Len(log)]
             before == Failed(SubSeq(log, 1, Len(log) - 1))
         IN  IF c.out = "raised" \/ (c.out = "returned" /\ ~ValidMedia(c.result))
             THEN Append(before, c)
             ELSE before

\* the diagnostic request r's own strategy outcomes leave behind
OwnDiagnostic(r) ==
    IF Failed(calls[r]) = <<>> THEN ErrUnsupported
    ELSE DiagnosticOf(Failed(calls[r])[Len(Failed(calls[r]))])

\* C24: under any interleaving of concurrent parse_link calls the running
\* diagnostic of a request is the one its own strategy outcomes left behind,
\* and the response of a request is the result of its own last strategy or
\* the failure with its own diagnostic, whatever the other requests recorded.
C24_DiagnosticPerRequest ==
    \A r \in Reqs :
        (pc[r] \in {"await", "done"} /\ StartsWith(url[r], "http")) =>
            /\ last_error[r] = OwnDiagnostic(r)
            /\ pc[r] = "done" =>
                   LET last == calls[r][Len(calls[r])]
                   IN  IF response[r].success
                       THEN /\ last.out = "returned"
                            /\ ResponseIs(response[r], last.result)
                       ELSE response[r] = FailureResponse(OwnDiagnostic(r))

\* one request has failed with its own diagnostic while another one, in
\* flight at the same time, has recorded a different diagnostic
C24_Witness ==
    \E r, q \in Reqs :
        /\ r # q
        /\ pc[r] = "done" /\ ~response[r].success
        /\ StartsWith(url[r], "http")
        /\ pc[q] = "await"
        /\ Failed(calls[q]) # <<>>
        /\ last_error[q] # response[r].error

-----------------------------------------------------------------------------
(* Properties of the response *)

\* C25: a response of parse_link has success=true exactly when it carries a
\* non-empty video_url or a non-empty images list, and then its fields are
\* those of the result of one strategy; a response with success=false
\* carries a non-empty error and neither video_url nor images nor cover.
C25_ResponseInvariant ==
    \A r \in Reqs :
        pc[r] = "done" =>
            /\ response[r].success = ValidMedia(response[r])
            /\ response[r].success =>
                   \E k \in 1..Len(calls[r]) :
                       /\ calls[r][k].out = "returned"
                       /\ ResponseIs(response[r], calls[r][k].result)
            /\ ~response[r].success =>
                   /\ Truthy(response[r].error)
                   /\ response[r].video_url = None
                   /\ response[r].images = <<>>
                   /\ response[r].cover = None

\* a gallery: success with images and no video_url, after an earlier strategy
\* had failed
C25_Witness ==
    \E r \in Reqs :
        /\ pc[r] = "done" /\ response[r].success
        /\ response[r].video_url = None /\ response[r].images # <<>>
        /\ Len(calls[r]) >= 2

\* a failure after a strategy returned a result without media
C25_WitnessFailure ==
    \E r \in Reqs :
        /\ pc[r] = "done" /\ ~response[r].success
        /\ \E k \in 1..Len(calls[r]) : calls[r][k].out = "returned"

-----------------------------------------------------------------------------
(* Properties of the initial diagnostic *)

\* no strategy but the aggregator can handle u
UnknownPlatform(u) ==
    \A i \in 1..Len(PARSERS) :
        CanHandle(PARSERS[i], u) => PARSERS[i] = "AggregatorParser"

\* C26: for every cleaned URL that passes the guard the aggregator is
\* applicable, so no response of parse_link carries the "platform not
\* supported" diagnostic; a URL of an unknown platform that fails was tried
\* by the aggregator alone and fails with the diagnostic of that attempt.
C26_NeverUnsupported ==
    \A r \in Reqs :
        /\ (pc[r] \in {"await", "done"} /\ UrlGuard(url[r])) =>
               /\ CanHandle("AggregatorParser", url[r])
               /\ calls[r] # <<>>
        /\ pc[r] = "done" => response[r].error # ErrUnsupported
        /\ (/\ pc[r] = "done" /\ UrlGuard(url[r])
            /\ UnknownPlatform(url[r]) /\ ~response[r].success) =>
               /\ Invoked(r) = <<"AggregatorParser">>
               /\ response[r] = FailureResponse(DiagnosticOf(calls[r][1]))

\* a link of no known platform has failed in the aggregator, which raised
C26_Witness ==
    \E r \in Reqs :
        /\ pc[r] = "done" /\ ~response[r].success
        /\ UrlGuard(url[r]) /\ UnknownPlatform(url[r])
        /\ calls[r][1].out = "raised"
        /\ StartsWith(response[r].error, "AggregatorParser: ")
====
